---- MODULE Spec2Model ----
(***************************************************************************)
(* Error taxonomy of deribit-base: the DeribitErrorCode registry           *)
(* (src/error/codes.rs), the DeribitError envelope (src/error/types.rs)    *)
(* and the converters between them (src/error/conversions.rs).             *)
(*                                                                         *)
(* Every operation is a pure function.  The state machine is one caller:   *)
(* a boundary operation takes an input from outside (an i32 off the wire,  *)
(* a u16 transport status, a value the caller constructs) and the derived  *)
(* operations apply the methods and conversions to what the caller holds,  *)
(* each storing its result in a register of its own.  A behaviour is one   *)
(* such chain from one input.                                              *)
(*                                                                         *)
(* Text is a sequence of one-character strings, so that formatting and     *)
(* parsing are computed rather than assumed.                               *)
(***************************************************************************)
EXTENDS Integers, Sequences, FiniteSets, TLC

(* ------------------------------ bounds -------------------------------- *)

\* i32 inputs include every integer within Near of a registered code.
Near == 1

\* u16 inputs include every status 0..MaxStatus.
MaxStatus == 600

\* Threads that call into the crate at the same time.
NumCallers == 2

(* ------------------------------ values -------------------------------- *)

\* Option<T>
None == <<>>
Some(x) == <<x>>

\* A DeribitErrorCode value: a unit variant, or Unknown(i32).
Named(v) == <<v>>
Unknown(p) == <<"Unknown", p>>

\* The unit variants of enum DeribitErrorCode, in declaration order.
NamedVariants ==
  { "Success", "AuthorizationRequired", "Error", "QtyTooLow", "OrderOverlap",
    "OrderNotFound", "PriceTooLow", "PriceTooLow4Idx", "PriceTooHigh", "NotEnoughFunds",
    "AlreadyClosed", "PriceNotAllowed", "BookClosed", "PmeMaxTotalOpenOrders",
    "PmeMaxFutureOpenOrders", "PmeMaxOptionOpenOrders", "PmeMaxFutureOpenOrdersSize",
    "PmeMaxOptionOpenOrdersSize", "NonPmeMaxFuturePositionSize", "LockedByAdmin",
    "InvalidOrUnsupportedInstrument", "InvalidAmount", "InvalidQuantity", "InvalidPrice",
    "InvalidMaxShow", "InvalidOrderId", "PricePrecisionExceeded",
    "NonIntegerContractAmount", "TooManyRequests", "NotOwnerOfOrder",
    "MustBeWebsocketRequest", "InvalidArgsForInstrument", "WholeCostTooLow",
    "NotImplemented", "TriggerPriceTooHigh", "TriggerPriceTooLow",
    "InvalidMaxShowAmount", "NonPmeTotalShortOptionsPositionsSize",
    "PmeMaxRiskReducingOrders", "NotEnoughFundsInCurrency", "Retry",
    "SettlementInProgress", "PriceWrongTick", "TriggerPriceWrongTick",
    "CanNotCancelLiquidationOrder", "CanNotEditLiquidationOrder",
    "MatchingEngineQueueFull", "NotOnThisServer", "CancelOnDisconnectFailed",
    "TooManyConcurrentRequests", "DisabledWhilePositionLock", "AlreadyFilled",
    "MaxSpotOpenOrders", "PostOnlyPriceModificationNotPossible", "MaxSpotOrderQuantity",
    "InvalidArguments", "OtherReject", "OtherError", "NoMoreTriggers",
    "InvalidTriggerPrice", "OutdatedInstrumentForIvOrder", "NoAdvForFutures",
    "NoAdvPostonly", "NotAdvOrder", "PermissionDenied", "BadArgument", "NotOpenOrder",
    "InvalidEvent", "OutdatedInstrument", "UnsupportedArgCombination",
    "WrongMaxShowForOption", "BadArguments", "BadRequest", "SystemMaintenance",
    "SubscribeErrorUnsubscribed", "TransferNotFound", "PostOnlyReject",
    "PostOnlyNotAllowed", "UnauthenticatedPublicRequestsTemporarilyDisabled",
    "InvalidAddr", "InvalidTransferAddress", "AddressAlreadyExist",
    "MaxAddrCountExceeded", "InternalServerError", "DisabledDepositAddressCreation",
    "AddressBelongsToUser", "NoDepositAddress", "AccountLocked", "TooManySubaccounts",
    "WrongSubaccountName", "LoginOverLimit", "RegistrationOverLimit", "CountryIsBanned",
    "TransferNotAllowed", "SecurityKeyAuthorizationOverLimit", "InvalidCredentials",
    "PwdMatchError", "SecurityError", "UserNotFound", "RequestFailed", "Unauthorized",
    "ValueRequired", "ValueTooShort", "UnavailableInSubaccount", "InvalidPhoneNumber",
    "CannotSendSms", "InvalidSmsCode", "InvalidInput", "InvalidContentType",
    "OrderbookClosed", "NotFound", "Forbidden", "MethodSwitchedOffByAdmin",
    "TemporarilyUnavailable", "MmpTrigger", "VerificationRequired",
    "NonUniqueOrderLabel", "NoMoreSecurityKeysAllowed", "ActiveComboLimitReached",
    "UnavailableForComboBooks", "IncompleteKycData", "MmpRequired", "CodNotEnabled",
    "QuotesFrozen", "ScopeExceeded", "Unavailable", "RequestCancelledByUser", "Replaced",
    "RawSubscriptionsNotAvailableForUnauthorized", "MovePositionsOverLimit",
    "CouponAlreadyUsed", "KycTransferAlreadyInitiated" }

\* The variants of enum DeribitError.
Connection(msg) == <<"Connection", msg>>
Authentication(msg) == <<"Authentication", msg>>
Api(c, m) == <<"Api", c, m>>
Serialization(msg) == <<"Serialization", msg>>
Timeout == <<"Timeout">>
InvalidConfig(msg) == <<"InvalidConfig", msg>>
Other(msg) == <<"Other", msg>>

(* ------------------------- decimal text of i32 ------------------------ *)

Digits == <<"0", "1", "2", "3", "4", "5", "6", "7", "8", "9">>

IsDigit(ch) == \E d \in 1..10 : Digits[d] = ch

DigitValue(ch) == (CHOOSE d \in 1..10 : Digits[d] = ch) - 1

\* The decimal digits of a non-negative integer, most significant first.
RECURSIVE fmt_u32(_)
fmt_u32(n) ==
  IF n < 10 THEN <<Digits[n + 1]>> ELSE fmt_u32(n \div 10) \o <<Digits[(n % 10) + 1]>>

\* Mutation: the sign is dropped.
fmt_i32_unsigned(n) == IF n < 0 THEN fmt_u32(0 - n) ELSE fmt_u32(n)

\* Display of an i32, which is also its JSON number text.
fmt_i32(n) == IF n < 0 THEN <<"-">> \o fmt_u32(0 - n) ELSE fmt_u32(n)

\* A JSON integer: an optional minus sign, then digits without a leading zero.
\* (Every text read here was written by serialize, so it fits an i32.)
is_json_integer(json) ==
  LET body == IF Len(json) > 0 /\ json[1] = "-" THEN Tail(json) ELSE json
  IN  /\ Len(body) > 0
      /\ \A i \in 1..Len(body) : IsDigit(body[i])
      /\ (Len(body) > 1 => body[1] # "0")

RECURSIVE parse_u32(_)
parse_u32(s) ==
  IF Len(s) = 0 THEN 0
  ELSE parse_u32(SubSeq(s, 1, Len(s) - 1)) * 10 + DigitValue(s[Len(s)])

parse_i32(json) ==
  IF json[1] = "-" THEN 0 - parse_u32(Tail(json)) ELSE parse_u32(json)

(* ------------------------- DeribitErrorCode --------------------------- *)

\* fn message(&self) -> &'static str
message_table(self) ==
  CASE self[1] = "Success" -> <<"s","u","c","c","e","s","s">>
    [] self[1] = "AuthorizationRequired" -> <<"a","u","t","h","o","r","i","z","a","t","i","o","n","_","r","e","q","u","i","r","e","d">>
    [] self[1] = "Error" -> <<"e","r","r","o","r">>
    [] self[1] = "QtyTooLow" -> <<"q","t","y","_","t","o","o","_","l","o","w">>
    [] self[1] = "OrderOverlap" -> <<"o","r","d","e","r","_","o","v","e","r","l","a","p">>
    [] self[1] = "OrderNotFound" -> <<"o","r","d","e","r","_","n","o","t","_","f","o","u","n","d">>
    [] self[1] = "PriceTooLow" -> <<"p","r","i","c","e","_","t","o","o","_","l","o","w">>
    [] self[1] = "PriceTooLow4Idx" -> <<"p","r","i","c","e","_","t","o","o","_","l","o","w","4","i","d","x">>
    [] self[1] = "PriceTooHigh" -> <<"p","r","i","c","e","_","t","o","o","_","h","i","g","h">>
    [] self[1] = "NotEnoughFunds" -> <<"n","o","t","_","e","n","o","u","g","h","_","f","u","n","d","s">>
    [] self[1] = "AlreadyClosed" -> <<"a","l","r","e","a","d","y","_","c","l","o","s","e","d">>
    [] self[1] = "PriceNotAllowed" -> <<"p","r","i","c","e","_","n","o","t","_","a","l","l","o","w","e","d">>
    [] self[1] = "BookClosed" -> <<"b","o","o","k","_","c","l","o","s","e","d">>
    [] self[1] = "PmeMaxTotalOpenOrders" -> <<"p","m","e","_","m","a","x","_","t","o","t","a","l","_","o","p","e","n","_","o","r","d","e","r","s">>
    [] self[1] = "PmeMaxFutureOpenOrders" -> <<"p","m","e","_","m","a","x","_","f","u","t","u","r","e","_","o","p","e","n","_","o","r","d","e","r","s">>
    [] self[1] = "PmeMaxOptionOpenOrders" -> <<"p","m","e","_","m","a","x","_","o","p","t","i","o","n","_","o","p","e","n","_","o","r","d","e","r","s">>
    [] self[1] = "PmeMaxFutureOpenOrdersSize" -> <<"p","m","e","_","m","a","x","_","f","u","t","u","r","e","_","o","p","e","n","_","o","r","d","e","r","s","_","s","i","z","e">>
    [] self[1] = "PmeMaxOptionOpenOrdersSize" -> <<"p","m","e","_","m","a","x","_","o","p","t","i","o","n","_","o","p","e","n","_","o","r","d","e","r","s","_","s","i","z","e">>
    [] self[1] = "NonPmeMaxFuturePositionSize" -> <<"n","o","n","_","p","m","e","_","m","a","x","_","f","u","t","u","r","e","_","p","o","s","i","t","i","o","n","_","s","i","z","e">>
    [] self[1] = "LockedByAdmin" -> <<"l","o","c","k","e","d","_","b","y","_","a","d","m","i","n">>
    [] self[1] = "InvalidOrUnsupportedInstrument" -> <<"i","n","v","a","l","i","d","_","o","r","_","u","n","s","u","p","p","o","r","t","e","d","_","i","n","s","t","r","u","m","e","n","t">>
    [] self[1] = "InvalidAmount" -> <<"i","n","v","a","l","i","d","_","a","m","o","u","n","t">>
    [] self[1] = "InvalidQuantity" -> <<"i","n","v","a","l","i","d","_","q","u","a","n","t","i","t","y">>
    [] self[1] = "InvalidPrice" -> <<"i","n","v","a","l","i","d","_","p","r","i","c","e">>
    [] self[1] = "InvalidMaxShow" -> <<"i","n","v","a","l","i","d","_","m","a","x","_","s","h","o","w">>
    [] self[1] = "InvalidOrderId" -> <<"i","n","v","a","l","i","d","_","o","r","d","e","r","_","i","d">>
    [] self[1] = "PricePrecisionExceeded" -> <<"p","r","i","c","e","_","p","r","e","c","i","s","i","o","n","_","e","x","c","e","e","d","e","d">>
    [] self[1] = "NonIntegerContractAmount" -> <<"n","o","n","_","i","n","t","e","g","e","r","_","c","o","n","t","r","a","c","t","_","a","m","o","u","n","t">>
    [] self[1] = "TooManyRequests" -> <<"t","o","o","_","m","a","n","y","_","r","e","q","u","e","s","t","s">>
    [] self[1] = "NotOwnerOfOrder" -> <<"n","o","t","_","o","w","n","e","r","_","o","f","_","o","r","d","e","r">>
    [] self[1] = "MustBeWebsocketRequest" -> <<"m","u","s","t","_","b","e","_","w","e","b","s","o","c","k","e","t","_","r","e","q","u","e","s","t">>
    [] self[1] = "InvalidArgsForInstrument" -> <<"i","n","v","a","l","i","d","_","a","r","g","s","_","f","o","r","_","i","n","s","t","r","u","m","e","n","t">>
    [] self[1] = "WholeCostTooLow" -> <<"w","h","o","l","e","_","c","o","s","t","_","t","o","o","_","l","o","w">>
    [] self[1] = "NotImplemented" -> <<"n","o","t","_","i","m","p","l","e","m","e","n","t","e","d">>
    [] self[1] = "TriggerPriceTooHigh" -> <<"t","r","i","g","g","e","r","_","p","r","i","c","e","_","t","o","o","_","h","i","g","h">>
    [] self[1] = "TriggerPriceTooLow" -> <<"t","r","i","g","g","e","r","_","p","r","i","c","e","_","t","o","o","_","l","o","w">>
    [] self[1] = "InvalidMaxShowAmount" -> <<"i","n","v","a","l","i","d","_","m","a","x","_","s","h","o","w","_","a","m","o","u","n","t">>
    [] self[1] = "NonPmeTotalShortOptionsPositionsSize" -> <<"n","o","n","_","p","m","e","_","t","o","t","a","l","_","s","h","o","r","t","_","o","p","t","i","o","n","s","_","p","o","s","i","t","i","o","n","s","_","s","i","z","e">>
    [] self[1] = "PmeMaxRiskReducingOrders" -> <<"p","m","e","_","m","a","x","_","r","i","s","k","_","r","e","d","u","c","i","n","g","_","o","r","d","e","r","s">>
    [] self[1] = "NotEnoughFundsInCurrency" -> <<"n","o","t","_","e","n","o","u","g","h","_","f","u","n","d","s","_","i","n","_","c","u","r","r","e","n","c","y">>
    [] self[1] = "Retry" -> <<"r","e","t","r","y">>
    [] self[1] = "SettlementInProgress" -> <<"s","e","t","t","l","e","m","e","n","t","_","i","n","_","p","r","o","g","r","e","s","s">>
    [] self[1] = "PriceWrongTick" -> <<"p","r","i","c","e","_","w","r","o","n","g","_","t","i","c","k">>
    [] self[1] = "TriggerPriceWrongTick" -> <<"t","r","i","g","g","e","r","_","p","r","i","c","e","_","w","r","o","n","g","_","t","i","c","k">>
    [] self[1] = "CanNotCancelLiquidationOrder" -> <<"c","a","n","_","n","o","t","_","c","a","n","c","e","l","_","l","i","q","u","i","d","a","t","i","o","n","_","o","r","d","e","r">>
    [] self[1] = "CanNotEditLiquidationOrder" -> <<"c","a","n","_","n","o","t","_","e","d","i","t","_","l","i","q","u","i","d","a","t","i","o","n","_","o","r","d","e","r">>
    [] self[1] = "MatchingEngineQueueFull" -> <<"m","a","t","c","h","i","n","g","_","e","n","g","i","n","e","_","q","u","e","u","e","_","f","u","l","l">>
    [] self[1] = "NotOnThisServer" -> <<"n","o","t","_","o","n","_","t","h","i","s","_","s","e","r","v","e","r">>
    [] self[1] = "CancelOnDisconnectFailed" -> <<"c","a","n","c","e","l","_","o","n","_","d","i","s","c","o","n","n","e","c","t","_","f","a","i","l","e","d">>
    [] self[1] = "TooManyConcurrentRequests" -> <<"t","o","o","_","m","a","n","y","_","c","o","n","c","u","r","r","e","n","t","_","r","e","q","u","e","s","t","s">>
    [] self[1] = "DisabledWhilePositionLock" -> <<"d","i","s","a","b","l","e","d","_","w","h","i","l","e","_","p","o","s","i","t","i","o","n","_","l","o","c","k">>
    [] self[1] = "AlreadyFilled" -> <<"a","l","r","e","a","d","y","_","f","i","l","l","e","d">>
    [] self[1] = "MaxSpotOpenOrders" -> <<"m","a","x","_","s","p","o","t","_","o","p","e","n","_","o","r","d","e","r","s">>
    [] self[1] = "PostOnlyPriceModificationNotPossible" -> <<"p","o","s","t","_","o","n","l","y","_","p","r","i","c","e","_","m","o","d","i","f","i","c","a","t","i","o","n","_","n","o","t","_","p","o","s","s","i","b","l","e">>
    [] self[1] = "MaxSpotOrderQuantity" -> <<"m","a","x","_","s","p","o","t","_","o","r","d","e","r","_","q","u","a","n","t","i","t","y">>
    [] self[1] = "InvalidArguments" -> <<"i","n","v","a","l","i","d","_","a","r","g","u","m","e","n","t","s">>
    [] self[1] = "OtherReject" -> <<"o","t","h","e","r","_","r","e","j","e","c","t">>
    [] self[1] = "OtherError" -> <<"o","t","h","e","r","_","e","r","r","o","r">>
    [] self[1] = "NoMoreTriggers" -> <<"n","o","_","m","o","r","e","_","t","r","i","g","g","e","r","s">>
    [] self[1] = "InvalidTriggerPrice" -> <<"i","n","v","a","l","i","d","_","t","r","i","g","g","e","r","_","p","r","i","c","e">>
    [] self[1] = "OutdatedInstrumentForIvOrder" -> <<"o","u","t","d","a","t","e","d","_","i","n","s","t","r","u","m","e","n","t","_","f","o","r","_","I","V","_","o","r","d","e","r">>
    [] self[1] = "NoAdvForFutures" -> <<"n","o","_","a","d","v","_","f","o","r","_","f","u","t","u","r","e","s">>
    [] self[1] = "NoAdvPostonly" -> <<"n","o","_","a","d","v","_","p","o","s","t","o","n","l","y">>
    [] self[1] = "NotAdvOrder" -> <<"n","o","t","_","a","d","v","_","o","r","d","e","r">>
    [] self[1] = "PermissionDenied" -> <<"p","e","r","m","i","s","s","i","o","n","_","d","e","n","i","e","d">>
    [] self[1] = "BadArgument" -> <<"b","a","d","_","a","r","g","u","m","e","n","t">>
    [] self[1] = "NotOpenOrder" -> <<"n","o","t","_","o","p","e","n","_","o","r","d","e","r">>
    [] self[1] = "InvalidEvent" -> <<"i","n","v","a","l","i","d","_","e","v","e","n","t">>
    [] self[1] = "OutdatedInstrument" -> <<"o","u","t","d","a","t","e","d","_","i","n","s","t","r","u","m","e","n","t">>
    [] self[1] = "UnsupportedArgCombination" -> <<"u","n","s","u","p","p","o","r","t","e","d","_","a","r","g","_","c","o","m","b","i","n","a","t","i","o","n">>
    [] self[1] = "WrongMaxShowForOption" -> <<"w","r","o","n","g","_","m","a","x","_","s","h","o","w","_","f","o","r","_","o","p","t","i","o","n">>
    [] self[1] = "BadArguments" -> <<"b","a","d","_","a","r","g","u","m","e","n","t","s">>
    [] self[1] = "BadRequest" -> <<"b","a","d","_","r","e","q","u","e","s","t">>
    [] self[1] = "SystemMaintenance" -> <<"s","y","s","t","e","m","_","m","a","i","n","t","e","n","a","n","c","e">>
    [] self[1] = "SubscribeErrorUnsubscribed" -> <<"s","u","b","s","c","r","i","b","e","_","e","r","r","o","r","_","u","n","s","u","b","s","c","r","i","b","e","d">>
    [] self[1] = "TransferNotFound" -> <<"t","r","a","n","s","f","e","r","_","n","o","t","_","f","o","u","n","d">>
    [] self[1] = "PostOnlyReject" -> <<"p","o","s","t","_","o","n","l","y","_","r","e","j","e","c","t">>
    [] self[1] = "PostOnlyNotAllowed" -> <<"p","o","s","t","_","o","n","l","y","_","n","o","t","_","a","l","l","o","w","e","d">>
    [] self[1] = "UnauthenticatedPublicRequestsTemporarilyDisabled" -> <<"u","n","a","u","t","h","e","n","t","i","c","a","t","e","d","_","p","u","b","l","i","c","_","r","e","q","u","e","s","t","s","_","t","e","m","p","o","r","a","r","i","l","y","_","d","i","s","a","b","l","e","d">>
    [] self[1] = "InvalidAddr" -> <<"i","n","v","a","l","i","d","_","a","d","d","r">>
    [] self[1] = "InvalidTransferAddress" -> <<"i","n","v","a","l","i","d","_","t","r","a","n","s","f","e","r","_","a","d","d","r","e","s","s">>
    [] self[1] = "AddressAlreadyExist" -> <<"a","d","d","r","e","s","s","_","a","l","r","e","a","d","y","_","e","x","i","s","t">>
    [] self[1] = "MaxAddrCountExceeded" -> <<"m","a","x","_","a","d","d","r","_","c","o","u","n","t","_","e","x","c","e","e","d","e","d">>
    [] self[1] = "InternalServerError" -> <<"i","n","t","e","r","n","a","l","_","s","e","r","v","e","r","_","e","r","r","o","r">>
    [] self[1] = "DisabledDepositAddressCreation" -> <<"d","i","s","a","b","l","e","d","_","d","e","p","o","s","i","t","_","a","d","d","r","e","s","s","_","c","r","e","a","t","i","o","n">>
    [] self[1] = "AddressBelongsToUser" -> <<"a","d","d","r","e","s","s","_","b","e","l","o","n","g","s","_","t","o","_","u","s","e","r">>
    [] self[1] = "NoDepositAddress" -> <<"n","o","_","d","e","p","o","s","i","t","_","a","d","d","r","e","s","s">>
    [] self[1] = "AccountLocked" -> <<"a","c","c","o","u","n","t","_","l","o","c","k","e","d">>
    [] self[1] = "TooManySubaccounts" -> <<"t","o","o","_","m","a","n","y","_","s","u","b","a","c","c","o","u","n","t","s">>
    [] self[1] = "WrongSubaccountName" -> <<"w","r","o","n","g","_","s","u","b","a","c","c","o","u","n","t","_","n","a","m","e">>
    [] self[1] = "LoginOverLimit" -> <<"l","o","g","i","n","_","o","v","e","r","_","l","i","m","i","t">>
    [] self[1] = "RegistrationOverLimit" -> <<"r","e","g","i","s","t","r","a","t","i","o","n","_","o","v","e","r","_","l","i","m","i","t">>
    [] self[1] = "CountryIsBanned" -> <<"c","o","u","n","t","r","y","_","i","s","_","b","a","n","n","e","d">>
    [] self[1] = "TransferNotAllowed" -> <<"t","r","a","n","s","f","e","r","_","n","o","t","_","a","l","l","o","w","e","d">>
    [] self[1] = "SecurityKeyAuthorizationOverLimit" -> <<"s","e","c","u","r","i","t","y","_","k","e","y","_","a","u","t","h","o","r","i","z","a","t","i","o","n","_","o","v","e","r","_","l","i","m","i","t">>
    [] self[1] = "InvalidCredentials" -> <<"i","n","v","a","l","i","d","_","c","r","e","d","e","n","t","i","a","l","s">>
    [] self[1] = "PwdMatchError" -> <<"p","w","d","_","m","a","t","c","h","_","e","r","r","o","r">>
    [] self[1] = "SecurityError" -> <<"s","e","c","u","r","i","t","y","_","e","r","r","o","r">>
    [] self[1] = "UserNotFound" -> <<"u","s","e","r","_","n","o","t","_","f","o","u","n","d">>
    [] self[1] = "RequestFailed" -> <<"r","e","q","u","e","s","t","_","f","a","i","l","e","d">>
    [] self[1] = "Unauthorized" -> <<"u","n","a","u","t","h","o","r","i","z","e","d">>
    [] self[1] = "ValueRequired" -> <<"v","a","l","u","e","_","r","e","q","u","i","r","e","d">>
    [] self[1] = "ValueTooShort" -> <<"v","a","l","u","e","_","t","o","o","_","s","h","o","r","t">>
    [] self[1] = "UnavailableInSubaccount" -> <<"u","n","a","v","a","i","l","a","b","l","e","_","i","n","_","s","u","b","a","c","c","o","u","n","t">>
    [] self[1] = "InvalidPhoneNumber" -> <<"i","n","v","a","l","i","d","_","p","h","o","n","e","_","n","u","m","b","e","r">>
    [] self[1] = "CannotSendSms" -> <<"c","a","n","n","o","t","_","s","e","n","d","_","s","m","s">>
    [] self[1] = "InvalidSmsCode" -> <<"i","n","v","a","l","i","d","_","s","m","s","_","c","o","d","e">>
    [] self[1] = "InvalidInput" -> <<"i","n","v","a","l","i","d","_","i","n","p","u","t">>
    [] self[1] = "InvalidContentType" -> <<"i","n","v","a","l","i","d","_","c","o","n","t","e","n","t","_","t","y","p","e">>
    [] self[1] = "OrderbookClosed" -> <<"o","r","d","e","r","b","o","o","k","_","c","l","o","s","e","d">>
    [] self[1] = "NotFound" -> <<"n","o","t","_","f","o","u","n","d">>
    [] self[1] = "Forbidden" -> <<"f","o","r","b","i","d","d","e","n">>
    [] self[1] = "MethodSwitchedOffByAdmin" -> <<"m","e","t","h","o","d","_","s","w","i","t","c","h","e","d","_","o","f","f","_","b","y","_","a","d","m","i","n">>
    [] self[1] = "TemporarilyUnavailable" -> <<"t","e","m","p","o","r","a","r","i","l","y","_","u","n","a","v","a","i","l","a","b","l","e">>
    [] self[1] = "MmpTrigger" -> <<"m","m","p","_","t","r","i","g","g","e","r">>
    [] self[1] = "VerificationRequired" -> <<"v","e","r","i","f","i","c","a","t","i","o","n","_","r","e","q","u","i","r","e","d">>
    [] self[1] = "NonUniqueOrderLabel" -> <<"n","o","n","_","u","n","i","q","u","e","_","o","r","d","e","r","_","l","a","b","e","l">>
    [] self[1] = "NoMoreSecurityKeysAllowed" -> <<"n","o","_","m","o","r","e","_","s","e","c","u","r","i","t","y","_","k","e","y","s","_","a","l","l","o","w","e","d">>
    [] self[1] = "ActiveComboLimitReached" -> <<"a","c","t","i","v","e","_","c","o","m","b","o","_","l","i","m","i","t","_","r","e","a","c","h","e","d">>
    [] self[1] = "UnavailableForComboBooks" -> <<"u","n","a","v","a","i","l","a","b","l","e","_","f","o","r","_","c","o","m","b","o","_","b","o","o","k","s">>
    [] self[1] = "IncompleteKycData" -> <<"i","n","c","o","m","p","l","e","t","e","_","K","Y","C","_","d","a","t","a">>
    [] self[1] = "MmpRequired" -> <<"m","m","p","_","r","e","q","u","i","r","e","d">>
    [] self[1] = "CodNotEnabled" -> <<"c","o","d","_","n","o","t","_","e","n","a","b","l","e","d">>
    [] self[1] = "QuotesFrozen" -> <<"q","u","o","t","e","s","_","f","r","o","z","e","n">>
    [] self[1] = "ScopeExceeded" -> <<"s","c","o","p","e","_","e","x","c","e","e","d","e","d">>
    [] self[1] = "Unavailable" -> <<"u","n","a","v","a","i","l","a","b","l","e">>
    [] self[1] = "RequestCancelledByUser" -> <<"r","e","q","u","e","s","t","_","c","a","n","c","e","l","l","e","d","_","b","y","_","u","s","e","r">>
    [] self[1] = "Replaced" -> <<"r","e","p","l","a","c","e","d">>
    [] self[1] = "RawSubscriptionsNotAvailableForUnauthorized" -> <<"r","a","w","_","s","u","b","s","c","r","i","p","t","i","o","n","s","_","n","o","t","_","a","v","a","i","l","a","b","l","e","_","f","o","r","_","u","n","a","u","t","h","o","r","i","z","e","d">>
    [] self[1] = "MovePositionsOverLimit" -> <<"m","o","v","e","_","p","o","s","i","t","i","o","n","s","_","o","v","e","r","_","l","i","m","i","t">>
    [] self[1] = "CouponAlreadyUsed" -> <<"c","o","u","p","o","n","_","a","l","r","e","a","d","y","_","u","s","e","d">>
    [] self[1] = "KycTransferAlreadyInitiated" -> <<"K","Y","C","_","t","r","a","n","s","f","e","r","_","a","l","r","e","a","d","y","_","i","n","i","t","i","a","t","e","d">>
    [] self[1] = "Unknown" -> <<"u","n","k","n","o","w","n","_","e","r","r","o","r">>
    [] self[1] = "Unknown" -> <<"u","n","k","n","o","w","n","_","e","r","r","o","r">>

\* Mutation: BadArguments has the message of BadArgument.
message_duplicate(self) ==
  IF self = Named("BadArguments") THEN <<"b","a","d","_","a","r","g","u","m","e","n","t">> ELSE message_table(self)

\* Mutation: NotFound is spelled with a space.
message_with_space(self) ==
  IF self = Named("NotFound") THEN <<"n","o","t"," ","f","o","u","n","d">> ELSE message_table(self)

\* Mutation: the payload is appended to the message of the catch-all.
message_with_payload(self) ==
  IF self[1] = "Unknown"
  THEN <<"u","n","k","n","o","w","n","_","e","r","r","o","r","_">> \o fmt_i32(self[2])
  ELSE message_table(self)

\* Mutation: the catch-all has no message.
message_unknown_empty(self) == IF self[1] = "Unknown" THEN <<>> ELSE message_table(self)

message(self) == message_table(self)

\* impl From<DeribitErrorCode> for i32
to_code_table(error) ==
  CASE error[1] = "Success" -> 0
    [] error[1] = "AuthorizationRequired" -> 10000
    [] error[1] = "Error" -> 10001
    [] error[1] = "QtyTooLow" -> 10002
    [] error[1] = "OrderOverlap" -> 10003
    [] error[1] = "OrderNotFound" -> 10004
    [] error[1] = "PriceTooLow" -> 10005
    [] error[1] = "PriceTooLow4Idx" -> 10006
    [] error[1] = "PriceTooHigh" -> 10007
    [] error[1] = "NotEnoughFunds" -> 10009
    [] error[1] = "AlreadyClosed" -> 10010
    [] error[1] = "PriceNotAllowed" -> 10011
    [] error[1] = "BookClosed" -> 10012
    [] error[1] = "PmeMaxTotalOpenOrders" -> 10013
    [] error[1] = "PmeMaxFutureOpenOrders" -> 10014
    [] error[1] = "PmeMaxOptionOpenOrders" -> 10015
    [] error[1] = "PmeMaxFutureOpenOrdersSize" -> 10016
    [] error[1] = "PmeMaxOptionOpenOrdersSize" -> 10017
    [] error[1] = "NonPmeMaxFuturePositionSize" -> 10018
    [] error[1] = "LockedByAdmin" -> 10019
    [] error[1] = "InvalidOrUnsupportedInstrument" -> 10020
    [] error[1] = "InvalidAmount" -> 10021
    [] error[1] = "InvalidQuantity" -> 10022
    [] error[1] = "InvalidPrice" -> 10023
    [] error[1] = "InvalidMaxShow" -> 10024
    [] error[1] = "InvalidOrderId" -> 10025
    [] error[1] = "PricePrecisionExceeded" -> 10026
    [] error[1] = "NonIntegerContractAmount" -> 10027
    [] error[1] = "TooManyRequests" -> 10028
    [] error[1] = "NotOwnerOfOrder" -> 10029
    [] error[1] = "MustBeWebsocketRequest" -> 10030
    [] error[1] = "InvalidArgsForInstrument" -> 10031
    [] error[1] = "WholeCostTooLow" -> 10032
    [] error[1] = "NotImplemented" -> 10033
    [] error[1] = "TriggerPriceTooHigh" -> 10034
    [] error[1] = "TriggerPriceTooLow" -> 10035
    [] error[1] = "InvalidMaxShowAmount" -> 10036
    [] error[1] = "NonPmeTotalShortOptionsPositionsSize" -> 10037
    [] error[1] = "PmeMaxRiskReducingOrders" -> 10038
    [] error[1] = "NotEnoughFundsInCurrency" -> 10039
    [] error[1] = "Retry" -> 10040
    [] error[1] = "SettlementInProgress" -> 10041
    [] error[1] = "PriceWrongTick" -> 10043
    [] error[1] = "TriggerPriceWrongTick" -> 10044
    [] error[1] = "CanNotCancelLiquidationOrder" -> 10045
    [] error[1] = "CanNotEditLiquidationOrder" -> 10046
    [] error[1] = "MatchingEngineQueueFull" -> 10047
    [] error[1] = "NotOnThisServer" -> 10048
    [] error[1] = "CancelOnDisconnectFailed" -> 10049
    [] error[1] = "TooManyConcurrentRequests" -> 10066
    [] error[1] = "DisabledWhilePositionLock" -> 10072
    [] error[1] = "AlreadyFilled" -> 11008
    [] error[1] = "MaxSpotOpenOrders" -> 11013
    [] error[1] = "PostOnlyPriceModificationNotPossible" -> 11021
    [] error[1] = "MaxSpotOrderQuantity" -> 11022
    [] error[1] = "InvalidArguments" -> 11029
    [] error[1] = "OtherReject" -> 11030
    [] error[1] = "OtherError" -> 11031
    [] error[1] = "NoMoreTriggers" -> 11035
    [] error[1] = "InvalidTriggerPrice" -> 11036
    [] error[1] = "OutdatedInstrumentForIvOrder" -> 11037
    [] error[1] = "NoAdvForFutures" -> 11038
    [] error[1] = "NoAdvPostonly" -> 11039
    [] error[1] = "NotAdvOrder" -> 11041
    [] error[1] = "PermissionDenied" -> 11042
    [] error[1] = "BadArgument" -> 11043
    [] error[1] = "NotOpenOrder" -> 11044
    [] error[1] = "InvalidEvent" -> 11045
    [] error[1] = "OutdatedInstrument" -> 11046
    [] error[1] = "UnsupportedArgCombination" -> 11047
    [] error[1] = "WrongMaxShowForOption" -> 11048
    [] error[1] = "BadArguments" -> 11049
    [] error[1] = "BadRequest" -> 11050
    [] error[1] = "SystemMaintenance" -> 11051
    [] error[1] = "SubscribeErrorUnsubscribed" -> 11052
    [] error[1] = "TransferNotFound" -> 11053
    [] error[1] = "PostOnlyReject" -> 11054
    [] error[1] = "PostOnlyNotAllowed" -> 11055
    [] error[1] = "UnauthenticatedPublicRequestsTemporarilyDisabled" -> 11056
    [] error[1] = "InvalidAddr" -> 11090
    [] error[1] = "InvalidTransferAddress" -> 11091
    [] error[1] = "AddressAlreadyExist" -> 11092
    [] error[1] = "MaxAddrCountExceeded" -> 11093
    [] error[1] = "InternalServerError" -> 11094
    [] error[1] = "DisabledDepositAddressCreation" -> 11095
    [] error[1] = "AddressBelongsToUser" -> 11096
    [] error[1] = "NoDepositAddress" -> 11097
    [] error[1] = "AccountLocked" -> 11098
    [] error[1] = "TooManySubaccounts" -> 12001
    [] error[1] = "WrongSubaccountName" -> 12002
    [] error[1] = "LoginOverLimit" -> 12003
    [] error[1] = "RegistrationOverLimit" -> 12004
    [] error[1] = "CountryIsBanned" -> 12005
    [] error[1] = "TransferNotAllowed" -> 12100
    [] error[1] = "SecurityKeyAuthorizationOverLimit" -> 12998
    [] error[1] = "InvalidCredentials" -> 13004
    [] error[1] = "PwdMatchError" -> 13005
    [] error[1] = "SecurityError" -> 13006
    [] error[1] = "UserNotFound" -> 13007
    [] error[1] = "RequestFailed" -> 13008
    [] error[1] = "Unauthorized" -> 13009
    [] error[1] = "ValueRequired" -> 13010
    [] error[1] = "ValueTooShort" -> 13011
    [] error[1] = "UnavailableInSubaccount" -> 13012
    [] error[1] = "InvalidPhoneNumber" -> 13013
    [] error[1] = "CannotSendSms" -> 13014
    [] error[1] = "InvalidSmsCode" -> 13015
    [] error[1] = "InvalidInput" -> 13016
    [] error[1] = "InvalidContentType" -> 13018
    [] error[1] = "OrderbookClosed" -> 13019
    [] error[1] = "NotFound" -> 13020
    [] error[1] = "Forbidden" -> 13021
    [] error[1] = "MethodSwitchedOffByAdmin" -> 13025
    [] error[1] = "TemporarilyUnavailable" -> 13028
    [] error[1] = "MmpTrigger" -> 13030
    [] error[1] = "VerificationRequired" -> 13031
    [] error[1] = "NonUniqueOrderLabel" -> 13032
    [] error[1] = "NoMoreSecurityKeysAllowed" -> 13034
    [] error[1] = "ActiveComboLimitReached" -> 13035
    [] error[1] = "UnavailableForComboBooks" -> 13036
    [] error[1] = "IncompleteKycData" -> 13037
    [] error[1] = "MmpRequired" -> 13040
    [] error[1] = "CodNotEnabled" -> 13042
    [] error[1] = "QuotesFrozen" -> 13043
    [] error[1] = "ScopeExceeded" -> 13403
    [] error[1] = "Unavailable" -> 13503
    [] error[1] = "RequestCancelledByUser" -> 13666
    [] error[1] = "Replaced" -> 13777
    [] error[1] = "RawSubscriptionsNotAvailableForUnauthorized" -> 13778
    [] error[1] = "MovePositionsOverLimit" -> 13780
    [] error[1] = "CouponAlreadyUsed" -> 13781
    [] error[1] = "KycTransferAlreadyInitiated" -> 13791
    [] error[1] = "Unknown" -> error[2]

\* Mutation: Error is given the integer of AuthorizationRequired.
to_code_reused(error) == IF error = Named("Error") THEN 10000 ELSE to_code_table(error)

to_code(error) == to_code_table(error)

\* Mutation: two codes are equal when their integers are.
eq_by_code(a, b) == to_code(a) = to_code(b)

\* #[derive(PartialEq, Eq)]: the same variant and, for Unknown, the same payload.
eq(a, b) == a[1] = b[1] /\ (a[1] = "Unknown" => a[2] = b[2])

\* Mutation: the payload of the catch-all is lost.
code_zero_for_unknown(self) == IF self[1] = "Unknown" THEN 0 ELSE to_code(self)

\* fn code(&self) -> i32 { self.clone().into() }
code(self) == to_code(self)

\* impl From<i32> for DeribitErrorCode
from_code_table(n) ==
  CASE n = 0 -> Named("Success")
    [] n = 10000 -> Named("AuthorizationRequired")
    [] n = 10001 -> Named("Error")
    [] n = 10002 -> Named("QtyTooLow")
    [] n = 10003 -> Named("OrderOverlap")
    [] n = 10004 -> Named("OrderNotFound")
    [] n = 10005 -> Named("PriceTooLow")
    [] n = 10006 -> Named("PriceTooLow4Idx")
    [] n = 10007 -> Named("PriceTooHigh")
    [] n = 10009 -> Named("NotEnoughFunds")
    [] n = 10010 -> Named("AlreadyClosed")
    [] n = 10011 -> Named("PriceNotAllowed")
    [] n = 10012 -> Named("BookClosed")
    [] n = 10013 -> Named("PmeMaxTotalOpenOrders")
    [] n = 10014 -> Named("PmeMaxFutureOpenOrders")
    [] n = 10015 -> Named("PmeMaxOptionOpenOrders")
    [] n = 10016 -> Named("PmeMaxFutureOpenOrdersSize")
    [] n = 10017 -> Named("PmeMaxOptionOpenOrdersSize")
    [] n = 10018 -> Named("NonPmeMaxFuturePositionSize")
    [] n = 10019 -> Named("LockedByAdmin")
    [] n = 10020 -> Named("InvalidOrUnsupportedInstrument")
    [] n = 10021 -> Named("InvalidAmount")
    [] n = 10022 -> Named("InvalidQuantity")
    [] n = 10023 -> Named("InvalidPrice")
    [] n = 10024 -> Named("InvalidMaxShow")
    [] n = 10025 -> Named("InvalidOrderId")
    [] n = 10026 -> Named("PricePrecisionExceeded")
    [] n = 10027 -> Named("NonIntegerContractAmount")
    [] n = 10028 -> Named("TooManyRequests")
    [] n = 10029 -> Named("NotOwnerOfOrder")
    [] n = 10030 -> Named("MustBeWebsocketRequest")
    [] n = 10031 -> Named("InvalidArgsForInstrument")
    [] n = 10032 -> Named("WholeCostTooLow")
    [] n = 10033 -> Named("NotImplemented")
    [] n = 10034 -> Named("TriggerPriceTooHigh")
    [] n = 10035 -> Named("TriggerPriceTooLow")
    [] n = 10036 -> Named("InvalidMaxShowAmount")
    [] n = 10037 -> Named("NonPmeTotalShortOptionsPositionsSize")
    [] n = 10038 -> Named("PmeMaxRiskReducingOrders")
    [] n = 10039 -> Named("NotEnoughFundsInCurrency")
    [] n = 10040 -> Named("Retry")
    [] n = 10041 -> Named("SettlementInProgress")
    [] n = 10043 -> Named("PriceWrongTick")
    [] n = 10044 -> Named("TriggerPriceWrongTick")
    [] n = 10045 -> Named("CanNotCancelLiquidationOrder")
    [] n = 10046 -> Named("CanNotEditLiquidationOrder")
    [] n = 10047 -> Named("MatchingEngineQueueFull")
    [] n = 10048 -> Named("NotOnThisServer")
    [] n = 10049 -> Named("CancelOnDisconnectFailed")
    [] n = 10066 -> Named("TooManyConcurrentRequests")
    [] n = 10072 -> Named("DisabledWhilePositionLock")
    [] n = 11008 -> Named("AlreadyFilled")
    [] n = 11013 -> Named("MaxSpotOpenOrders")
    [] n = 11021 -> Named("PostOnlyPriceModificationNotPossible")
    [] n = 11022 -> Named("MaxSpotOrderQuantity")
    [] n = 11029 -> Named("InvalidArguments")
    [] n = 11030 -> Named("OtherReject")
    [] n = 11031 -> Named("OtherError")
    [] n = 11035 -> Named("NoMoreTriggers")
    [] n = 11036 -> Named("InvalidTriggerPrice")
    [] n = 11037 -> Named("OutdatedInstrumentForIvOrder")
    [] n = 11038 -> Named("NoAdvForFutures")
    [] n = 11039 -> Named("NoAdvPostonly")
    [] n = 11041 -> Named("NotAdvOrder")
    [] n = 11042 -> Named("PermissionDenied")
    [] n = 11043 -> Named("BadArgument")
    [] n = 11044 -> Named("NotOpenOrder")
    [] n = 11045 -> Named("InvalidEvent")
    [] n = 11046 -> Named("OutdatedInstrument")
    [] n = 11047 -> Named("UnsupportedArgCombination")
    [] n = 11048 -> Named("WrongMaxShowForOption")
    [] n = 11049 -> Named("BadArguments")
    [] n = 11050 -> Named("BadRequest")
    [] n = 11051 -> Named("SystemMaintenance")
    [] n = 11052 -> Named("SubscribeErrorUnsubscribed")
    [] n = 11053 -> Named("TransferNotFound")
    [] n = 11054 -> Named("PostOnlyReject")
    [] n = 11055 -> Named("PostOnlyNotAllowed")
    [] n = 11056 -> Named("UnauthenticatedPublicRequestsTemporarilyDisabled")
    [] n = 11090 -> Named("InvalidAddr")
    [] n = 11091 -> Named("InvalidTransferAddress")
    [] n = 11092 -> Named("AddressAlreadyExist")
    [] n = 11093 -> Named("MaxAddrCountExceeded")
    [] n = 11094 -> Named("InternalServerError")
    [] n = 11095 -> Named("DisabledDepositAddressCreation")
    [] n = 11096 -> Named("AddressBelongsToUser")
    [] n = 11097 -> Named("NoDepositAddress")
    [] n = 11098 -> Named("AccountLocked")
    [] n = 12001 -> Named("TooManySubaccounts")
    [] n = 12002 -> Named("WrongSubaccountName")
    [] n = 12003 -> Named("LoginOverLimit")
    [] n = 12004 -> Named("RegistrationOverLimit")
    [] n = 12005 -> Named("CountryIsBanned")
    [] n = 12100 -> Named("TransferNotAllowed")
    [] n = 12998 -> Named("SecurityKeyAuthorizationOverLimit")
    [] n = 13004 -> Named("InvalidCredentials")
    [] n = 13005 -> Named("PwdMatchError")
    [] n = 13006 -> Named("SecurityError")
    [] n = 13007 -> Named("UserNotFound")
    [] n = 13008 -> Named("RequestFailed")
    [] n = 13009 -> Named("Unauthorized")
    [] n = 13010 -> Named("ValueRequired")
    [] n = 13011 -> Named("ValueTooShort")
    [] n = 13012 -> Named("UnavailableInSubaccount")
    [] n = 13013 -> Named("InvalidPhoneNumber")
    [] n = 13014 -> Named("CannotSendSms")
    [] n = 13015 -> Named("InvalidSmsCode")
    [] n = 13016 -> Named("InvalidInput")
    [] n = 13018 -> Named("InvalidContentType")
    [] n = 13019 -> Named("OrderbookClosed")
    [] n = 13020 -> Named("NotFound")
    [] n = 13021 -> Named("Forbidden")
    [] n = 13025 -> Named("MethodSwitchedOffByAdmin")
    [] n = 13028 -> Named("TemporarilyUnavailable")
    [] n = 13030 -> Named("MmpTrigger")
    [] n = 13031 -> Named("VerificationRequired")
    [] n = 13032 -> Named("NonUniqueOrderLabel")
    [] n = 13034 -> Named("NoMoreSecurityKeysAllowed")
    [] n = 13035 -> Named("ActiveComboLimitReached")
    [] n = 13036 -> Named("UnavailableForComboBooks")
    [] n = 13037 -> Named("IncompleteKycData")
    [] n = 13040 -> Named("MmpRequired")
    [] n = 13042 -> Named("CodNotEnabled")
    [] n = 13043 -> Named("QuotesFrozen")
    [] n = 13403 -> Named("ScopeExceeded")
    [] n = 13503 -> Named("Unavailable")
    [] n = 13666 -> Named("RequestCancelledByUser")
    [] n = 13777 -> Named("Replaced")
    [] n = 13778 -> Named("RawSubscriptionsNotAvailableForUnauthorized")
    [] n = 13780 -> Named("MovePositionsOverLimit")
    [] n = 13781 -> Named("CouponAlreadyUsed")
    [] n = 13791 -> Named("KycTransferAlreadyInitiated")
    [] OTHER -> Unknown(n)

\* Mutation: the arm of 10001 names the variant of 10000.
from_code_wrong_arm(n) ==
  IF n = 10001 THEN Named("AuthorizationRequired") ELSE from_code_table(n)

\* Mutation: the last arm of the table is missing.
from_code_missing_arm(n) == IF n = 13791 THEN Unknown(n) ELSE from_code_table(n)

\* Mutation: the fallback does not keep the integer.
from_code_lossy(n) ==
  IF from_code_table(n)[1] = "Unknown" THEN Unknown(0 - 1) ELSE from_code_table(n)

from_code(n) == from_code_table(n)

\* Mutation: success is decided by the integer.
is_success_by_code(self) == to_code(self) = 0

\* fn is_success(&self) -> bool
is_success(self) == self = Named("Success")

\* Mutation: Forbidden counts as an authorization error.
is_authorization_error_with_forbidden(self) ==
  self \in { Named("AuthorizationRequired"), Named("Unauthorized"), Named("Forbidden") }

\* fn is_authorization_error(&self) -> bool
is_authorization_error(self) ==
  self \in { Named("AuthorizationRequired"), Named("Unauthorized") }

\* Mutation: the rate-limit test goes by the integer.
is_rate_limit_error_by_code(self) ==
  to_code(self) \in { to_code(Named("TooManyRequests")),
                      to_code(Named("TooManyConcurrentRequests")) }

\* fn is_rate_limit_error(&self) -> bool
is_rate_limit_error(self) ==
  self \in { Named("TooManyRequests"), Named("TooManyConcurrentRequests") }

\* Mutation: InvalidMaxShow is listed as a validation error.
is_validation_error_with_max_show(self) ==
  self \in { Named("InvalidAmount"), Named("InvalidPrice"), Named("InvalidQuantity"),
             Named("InvalidOrderId"), Named("InvalidArguments"), Named("BadArgument"),
             Named("BadArguments"), Named("InvalidInput"), Named("InvalidMaxShow") }

\* Mutation: BadRequest is listed as a validation error.
is_validation_error_with_bad_request(self) ==
  self \in { Named("InvalidAmount"), Named("InvalidPrice"), Named("InvalidQuantity"),
             Named("InvalidOrderId"), Named("InvalidArguments"), Named("BadArgument"),
             Named("BadArguments"), Named("InvalidInput"), Named("BadRequest") }

\* fn is_validation_error(&self) -> bool
is_validation_error(self) ==
  self \in { Named("InvalidAmount"), Named("InvalidPrice"), Named("InvalidQuantity"),
             Named("InvalidOrderId"), Named("InvalidArguments"), Named("BadArgument"),
             Named("BadArguments"), Named("InvalidInput") }

\* Mutation: InvalidPrice is listed as a trading error too.
is_trading_error_with_invalid_price(self) ==
  self \in { Named("QtyTooLow"), Named("OrderOverlap"), Named("OrderNotFound"),
             Named("PriceTooLow"), Named("PriceTooHigh"), Named("NotEnoughFunds"),
             Named("AlreadyClosed"), Named("PriceNotAllowed"), Named("BookClosed"),
             Named("InvalidPrice") }

\* fn is_trading_error(&self) -> bool
is_trading_error(self) ==
  self \in { Named("QtyTooLow"), Named("OrderOverlap"), Named("OrderNotFound"),
             Named("PriceTooLow"), Named("PriceTooHigh"), Named("NotEnoughFunds"),
             Named("AlreadyClosed"), Named("PriceNotAllowed"), Named("BookClosed") }

\* The (code, variant) pairs of test_all_error_code_conversions.
test_cases ==
  { <<0, "Success">>, <<10000, "AuthorizationRequired">>, <<10001, "Error">>,
    <<10002, "QtyTooLow">>, <<10003, "OrderOverlap">>, <<10004, "OrderNotFound">>,
    <<10005, "PriceTooLow">>, <<10006, "PriceTooLow4Idx">>, <<10007, "PriceTooHigh">>,
    <<10009, "NotEnoughFunds">>, <<10010, "AlreadyClosed">>,
    <<10011, "PriceNotAllowed">>, <<10012, "BookClosed">>,
    <<10013, "PmeMaxTotalOpenOrders">>, <<10014, "PmeMaxFutureOpenOrders">>,
    <<10015, "PmeMaxOptionOpenOrders">>, <<10016, "PmeMaxFutureOpenOrdersSize">>,
    <<10017, "PmeMaxOptionOpenOrdersSize">>, <<10018, "NonPmeMaxFuturePositionSize">>,
    <<10019, "LockedByAdmin">>, <<10020, "InvalidOrUnsupportedInstrument">>,
    <<10021, "InvalidAmount">>, <<10022, "InvalidQuantity">>, <<10023, "InvalidPrice">>,
    <<10024, "InvalidMaxShow">>, <<10025, "InvalidOrderId">>,
    <<10026, "PricePrecisionExceeded">>, <<10027, "NonIntegerContractAmount">>,
    <<10028, "TooManyRequests">>, <<10029, "NotOwnerOfOrder">>,
    <<10030, "MustBeWebsocketRequest">>, <<10031, "InvalidArgsForInstrument">>,
    <<10032, "WholeCostTooLow">>, <<10033, "NotImplemented">>,
    <<10034, "TriggerPriceTooHigh">>, <<10035, "TriggerPriceTooLow">>,
    <<10036, "InvalidMaxShowAmount">>, <<10037, "NonPmeTotalShortOptionsPositionsSize">>,
    <<10038, "PmeMaxRiskReducingOrders">>, <<10039, "NotEnoughFundsInCurrency">>,
    <<10040, "Retry">>, <<10041, "SettlementInProgress">>, <<10043, "PriceWrongTick">>,
    <<10044, "TriggerPriceWrongTick">>, <<10045, "CanNotCancelLiquidationOrder">>,
    <<10046, "CanNotEditLiquidationOrder">>, <<10047, "MatchingEngineQueueFull">>,
    <<10048, "NotOnThisServer">>, <<10049, "CancelOnDisconnectFailed">>,
    <<10066, "TooManyConcurrentRequests">>, <<10072, "DisabledWhilePositionLock">>,
    <<11008, "AlreadyFilled">>, <<11013, "MaxSpotOpenOrders">>,
    <<11021, "PostOnlyPriceModificationNotPossible">>, <<11022, "MaxSpotOrderQuantity">>,
    <<11029, "InvalidArguments">>, <<11030, "OtherReject">>, <<11031, "OtherError">>,
    <<11035, "NoMoreTriggers">>, <<11036, "InvalidTriggerPrice">>,
    <<11037, "OutdatedInstrumentForIvOrder">>, <<11038, "NoAdvForFutures">>,
    <<11039, "NoAdvPostonly">>, <<11041, "NotAdvOrder">>, <<11042, "PermissionDenied">>,
    <<11043, "BadArgument">>, <<11044, "NotOpenOrder">>, <<11045, "InvalidEvent">>,
    <<11046, "OutdatedInstrument">>, <<11047, "UnsupportedArgCombination">>,
    <<11048, "WrongMaxShowForOption">>, <<11049, "BadArguments">>,
    <<11050, "BadRequest">>, <<11051, "SystemMaintenance">>,
    <<11052, "SubscribeErrorUnsubscribed">>, <<11053, "TransferNotFound">>,
    <<11054, "PostOnlyReject">>, <<11055, "PostOnlyNotAllowed">>,
    <<11056, "UnauthenticatedPublicRequestsTemporarilyDisabled">>,
    <<11090, "InvalidAddr">>, <<11091, "InvalidTransferAddress">>,
    <<11092, "AddressAlreadyExist">>, <<11093, "MaxAddrCountExceeded">>,
    <<11094, "InternalServerError">>, <<11095, "DisabledDepositAddressCreation">>,
    <<11096, "AddressBelongsToUser">>, <<11097, "NoDepositAddress">>,
    <<11098, "AccountLocked">>, <<12001, "TooManySubaccounts">>,
    <<12002, "WrongSubaccountName">>, <<12003, "LoginOverLimit">>,
    <<12004, "RegistrationOverLimit">>, <<12005, "CountryIsBanned">>,
    <<12100, "TransferNotAllowed">>, <<12998, "SecurityKeyAuthorizationOverLimit">>,
    <<13004, "InvalidCredentials">>, <<13005, "PwdMatchError">>,
    <<13006, "SecurityError">>, <<13007, "UserNotFound">>, <<13008, "RequestFailed">>,
    <<13009, "Unauthorized">>, <<13010, "ValueRequired">>, <<13011, "ValueTooShort">>,
    <<13012, "UnavailableInSubaccount">>, <<13013, "InvalidPhoneNumber">>,
    <<13014, "CannotSendSms">>, <<13015, "InvalidSmsCode">>, <<13016, "InvalidInput">>,
    <<13018, "InvalidContentType">>, <<13019, "OrderbookClosed">>, <<13020, "NotFound">>,
    <<13021, "Forbidden">>, <<13025, "MethodSwitchedOffByAdmin">>,
    <<13028, "TemporarilyUnavailable">>, <<13030, "MmpTrigger">>,
    <<13031, "VerificationRequired">>, <<13032, "NonUniqueOrderLabel">>,
    <<13034, "NoMoreSecurityKeysAllowed">>, <<13035, "ActiveComboLimitReached">>,
    <<13036, "UnavailableForComboBooks">>, <<13037, "IncompleteKycData">>,
    <<13040, "MmpRequired">>, <<13042, "CodNotEnabled">>, <<13043, "QuotesFrozen">>,
    <<13403, "ScopeExceeded">>, <<13503, "Unavailable">>,
    <<13666, "RequestCancelledByUser">>, <<13777, "Replaced">>,
    <<13778, "RawSubscriptionsNotAvailableForUnauthorized">>,
    <<13780, "MovePositionsOverLimit">>, <<13781, "CouponAlreadyUsed">>,
    <<13791, "KycTransferAlreadyInitiated">> }


\* The integers the test table registers.
RegisteredCodes == { tc[1] : tc \in test_cases }

(* ------------------------------- serde -------------------------------- *)

\* Mutation: the number is written without its sign.
serialize_unsigned(self) == fmt_i32_unsigned(to_code(self))

\* #[serde(into = "i32")]: the value is converted to i32 and written as a number.
serialize(self) == fmt_i32(to_code(self))

\* #[serde(from = "i32")]: an i32 is read and converted with From<i32>.
deserialize(json) ==
  IF is_json_integer(json) THEN <<"Ok", from_code(parse_i32(json))>> ELSE <<"Err">>

(* ----------------------------- converters ----------------------------- *)

\* Mutation: only the code field is filled in.
DeribitError_from_code_no_message(error_code) == Api(code(error_code), <<>>)

\* Mutation: the message of the generic Error variant is used for every code.
DeribitError_from_code_fixed_message(error_code) ==
  Api(code(error_code), message(Named("Error")))

\* impl From<DeribitErrorCode> for DeribitError
DeribitError_from_code(error_code) == Api(code(error_code), message(error_code))

\* Mutation: the content decides the variant.
DeribitError_from_string_by_content(m) ==
  IF Len(m) >= 8 /\ SubSeq(m, 1, 8) = <<"e","x","p","e","c","t","e","d">>
  THEN Serialization(m)
  ELSE Connection(m)

\* impl From<String> for DeribitError
DeribitError_from_string(m) == Connection(m)

\* str::to_string: the characters are copied into a new String.
str_to_string(s) == [ i \in 1..Len(s) |-> s[i] ]

\* impl From<&str> for DeribitError
DeribitError_from_str(m) == Connection(str_to_string(m))

\* Display of serde_json::Error: "<what was wrong> at line L column C".
json_error_to_string(error) ==
  error.code \o <<" ","a","t"," ","l","i","n","e"," ">> \o fmt_i32(error.line)
    \o <<" ","c","o","l","u","m","n"," ">> \o fmt_i32(error.column)

\* impl From<serde_json::Error> for DeribitError
DeribitError_from_json_error(error) == Serialization(json_error_to_string(error))

\* Mutation: the Api template is written "Api error".
to_string_api_lowercase(self) ==
  CASE self[1] = "Connection" -> <<"C","o","n","n","e","c","t","i","o","n"," ","e","r","r","o","r",":"," ">> \o self[2]
    [] self[1] = "Authentication" -> <<"A","u","t","h","e","n","t","i","c","a","t","i","o","n"," ","e","r","r","o","r",":"," ">> \o self[2]
    [] self[1] = "Api" -> <<"A","p","i"," ","e","r","r","o","r"," ">> \o fmt_i32(self[2]) \o <<":"," ">> \o self[3]
    [] self[1] = "Serialization" -> <<"S","e","r","i","a","l","i","z","a","t","i","o","n"," ","e","r","r","o","r",":"," ">> \o self[2]
    [] self[1] = "Timeout" -> <<"R","e","q","u","e","s","t"," ","t","i","m","e","o","u","t">>
    [] self[1] = "InvalidConfig" -> <<"I","n","v","a","l","i","d"," ","c","o","n","f","i","g","u","r","a","t","i","o","n",":"," ">> \o self[2]
    [] self[1] = "Other" -> <<"E","r","r","o","r",":"," ">> \o self[2]

\* impl fmt::Display for DeribitError
to_string(self) ==
  CASE self[1] = "Connection" -> <<"C","o","n","n","e","c","t","i","o","n"," ","e","r","r","o","r",":"," ">> \o self[2]
    [] self[1] = "Authentication" -> <<"A","u","t","h","e","n","t","i","c","a","t","i","o","n"," ","e","r","r","o","r",":"," ">> \o self[2]
    [] self[1] = "Api" -> <<"A","P","I"," ","e","r","r","o","r"," ">> \o fmt_i32(self[2]) \o <<":"," ">> \o self[3]
    [] self[1] = "Serialization" -> <<"S","e","r","i","a","l","i","z","a","t","i","o","n"," ","e","r","r","o","r",":"," ">> \o self[2]
    [] self[1] = "Timeout" -> <<"R","e","q","u","e","s","t"," ","t","i","m","e","o","u","t">>
    [] self[1] = "InvalidConfig" -> <<"I","n","v","a","l","i","d"," ","c","o","n","f","i","g","u","r","a","t","i","o","n",":"," ">> \o self[2]
    [] self[1] = "Other" -> <<"E","r","r","o","r",":"," ">> \o self[2]

\* Mutation: the status goes through i16, which sign-extends.
as_i32_sign_extended(status) ==
  LET bits == status % 65536 IN IF bits >= 32768 THEN bits - 65536 ELSE bits

\* `status as i32` on a u16: the 16 bits are zero-extended, the sign bit stays clear.
as_i32(status) == LET bits == status % 65536 IN bits

\* impl From<u16> for DeribitErrorCode
from_status_table(status) ==
  CASE status = 400 -> Named("BadRequest")
    [] status = 401 -> Named("Unauthorized")
    [] status = 403 -> Named("Forbidden")
    [] status = 404 -> Named("NotFound")
    [] status = 429 -> Named("TooManyRequests")
    [] status = 500 -> Named("InternalServerError")
    [] status = 503 -> Named("TemporarilyUnavailable")
    [] OTHER -> Unknown(as_i32(status))

\* Mutation: 502 is taken for "temporarily unavailable" as well.
from_status_with_502(status) ==
  IF status = 502 THEN Named("TemporarilyUnavailable") ELSE from_status_table(status)

\* Mutation: 401 is mapped to the other authorization code.
from_status_401_as_10000(status) ==
  IF status = 401 THEN Named("AuthorizationRequired") ELSE from_status_table(status)

\* Mutation: status-derived payloads are moved out of the protocol range.
from_status_tagged(status) ==
  IF from_status_table(status)[1] = "Unknown"
  THEN Unknown(as_i32(status) + 100000)
  ELSE from_status_table(status)

\* Mutation: status 200 is taken for success.
from_status_200_success(status) ==
  IF status = 200 THEN Named("Success") ELSE from_status_table(status)

\* Mutation: status 0 is taken for success.
from_status_zero_success(status) ==
  IF status = 0 THEN Named("Success") ELSE from_status_table(status)

from_status(status) == from_status_table(status)

\* The five classifications of a code.
classify(self) ==
  [ success |-> is_success(self),
    authorization |-> is_authorization_error(self),
    rate_limit |-> is_rate_limit_error(self),
    validation |-> is_validation_error(self),
    trading |-> is_trading_error(self) ]

(* ------------------------------- inputs ------------------------------- *)

\* i32 values a caller passes: the registered codes, their neighbours, the
\* literals of the tests and the ends of the i32 range.
I32Inputs ==
  UNION { (c - Near)..(c + Near) : c \in RegisteredCodes }
    \cup { -2147483647, -13009, -1, 418, 12345, 54321, 99999, 999999, 2147483647 }

\* u16 values a caller passes: the HTTP range, every registered code (all
\* fit in 16 bits) and the values around the i16 sign bit.
StatusInputs ==
  (0..MaxStatus) \cup { c \in RegisteredCodes : c <= 65535 } \cup { 32767, 32768, 65535 }

\* Code values a caller constructs.
CodeValues == { Named(v) : v \in NamedVariants } \cup { Unknown(p) : p \in I32Inputs }

\* Code values a caller compares with v: v itself, the literals of
\* test_clone_and_equality, and the two values that share the integer of v.
ComparedWith(v) ==
  { v, Named("AuthorizationRequired"), Named("Error"), Unknown(12345), Unknown(54321),
    Unknown(to_code(v)), from_code(to_code(v)) }

\* Fields a caller gives the Api variant directly (tests of types.rs).
ApiCodes == { 0, 123, 10000, 10009 }
ApiMessages ==
  { <<"I","n","v","a","l","i","d"," ","r","e","q","u","e","s","t">>,
    <<"t","e","s","t">>,
    <<"a","u","t","h","o","r","i","z","a","t","i","o","n","_","r","e","q","u","i","r","e","d">>,
    <<"u","n","k","n","o","w","n","_","e","r","r","o","r">> }

\* Texts a caller passes: the literals of the tests, the empty text, a text
\* that reads like a parse error and a text that looks like a placeholder.
Texts ==
  { <<>>,
    <<"t","e","s","t">>,
    <<"F","a","i","l","e","d"," ","t","o"," ","c","o","n","n","e","c","t">>,
    <<"I","n","v","a","l","i","d"," ","c","r","e","d","e","n","t","i","a","l","s">>,
    <<"J","S","O","N"," ","p","a","r","s","e"," ","e","r","r","o","r">>,
    <<"M","i","s","s","i","n","g"," ","A","P","I"," ","k","e","y">>,
    <<"U","n","k","n","o","w","n"," ","e","r","r","o","r">>,
    <<"C","o","n","n","e","c","t","i","o","n"," ","f","a","i","l","e","d">>,
    <<"C","o","n","n","e","c","t","i","o","n"," ","t","i","m","e","o","u","t">>,
    <<"e","x","p","e","c","t","e","d"," ","v","a","l","u","e"," ","a","t"," ","l","i","n","e"," ","1"," ","c","o","l","u","m","n"," ","1","3">>,
    <<"{","m","s","g","}">> }

\* The variants of DeribitError that carry one text.
TextVariants == { "Connection", "Authentication", "Serialization", "InvalidConfig", "Other" }

\* Failures serde_json reports: what was wrong, and where.
JsonErrors ==
  { [ code |-> <<"e","x","p","e","c","t","e","d"," ","v","a","l","u","e">>, line |-> 1, column |-> 13 ],
    [ code |-> <<"E","O","F"," ","w","h","i","l","e"," ","p","a","r","s","i","n","g"," ","a"," ","v","a","l","u","e">>, line |-> 1, column |-> 0 ],
    [ code |-> <<"t","r","a","i","l","i","n","g"," ","c","h","a","r","a","c","t","e","r","s">>, line |-> 2, column |-> 10 ] }

(* ------------------------------- calls -------------------------------- *)

Callers == 1..NumCallers

\* What one call returns: <<type, value>>.
call_result(call) ==
  CASE call[1] = "from_code" -> <<"code", from_code(call[2])>>
    [] call[1] = "from_status" -> <<"code", from_status(call[2])>>
    [] call[1] = "code" -> <<"i32", code(call[2])>>
    [] call[1] = "message" -> <<"str", message(call[2])>>
    [] call[1] = "is_success" -> <<"bool", is_success(call[2])>>
    [] call[1] = "is_authorization_error" -> <<"bool", is_authorization_error(call[2])>>
    [] call[1] = "is_rate_limit_error" -> <<"bool", is_rate_limit_error(call[2])>>
    [] call[1] = "is_validation_error" -> <<"bool", is_validation_error(call[2])>>
    [] call[1] = "is_trading_error" -> <<"bool", is_trading_error(call[2])>>
    [] call[1] = "into_error" -> <<"error", DeribitError_from_code(call[2])>>
    [] call[1] = "from_str" -> <<"error", DeribitError_from_str(call[2])>>
    [] call[1] = "to_string" -> <<"str", to_string(call[2])>>

\* Mutation: the operand of every call is kept in one static buffer.
frame_shared(c) == 1

\* Every operation takes its operand by value or as &self, so the operand of
\* a call lives in the frame of the thread that makes the call.
frame_of(c) == c

\* Calls the threads make: <<operation, operand>> (literals of the tests).
Calls ==
  { <<"from_code", 10000>>,
    <<"from_code", 99999>>,
    <<"from_status", 401>>,
    <<"from_status", 418>>,
    <<"code", Named("TooManyRequests")>>,
    <<"message", Named("AuthorizationRequired")>>,
    <<"message", Unknown(99999)>>,
    <<"is_success", Named("Success")>>,
    <<"is_authorization_error", Named("AuthorizationRequired")>>,
    <<"is_trading_error", Named("AuthorizationRequired")>>,
    <<"is_rate_limit_error", Named("TooManyRequests")>>,
    <<"is_validation_error", Named("TooManyRequests")>>,
    <<"into_error", Named("AuthorizationRequired")>>,
    <<"from_str", <<"C","o","n","n","e","c","t","i","o","n"," ","t","i","m","e","o","u","t">>>>,
    <<"to_string", Timeout>> }

(* ---------------------------- state machine --------------------------- *)

VARIABLES
  input,    \* what the caller started from: <<kind, value...>>
  held,     \* Option<DeribitErrorCode>: the code the caller holds
  num,      \* Option<i32>: held.code()
  msg,      \* Option<&str>: held.message()
  cats,     \* Option: the five predicates on held
  env,      \* Option<DeribitError>
  wire,     \* Option<String>: serde_json::to_string(&held)
  decoded,  \* Option<Result<DeribitErrorCode>>: serde_json::from_str(&wire)
  back,     \* Option<DeribitErrorCode>: DeribitErrorCode::from(num)
  shown,    \* Option<String>: env.to_string()
  same,     \* Option<bool>: a == b for the pair the caller compares
  pc,       \* per thread: "idle", "called" or "returned"
  frame,    \* per frame: Option of the operand of the call in progress
  asked,    \* per thread: Option of the call the thread made
  result,   \* per thread: Option of what the call returned
  running   \* the thread that took the last step (0 at the start)

\* The registers of the single caller.
svars == <<input, held, num, msg, cats, env, wire, decoded, back, shown, same>>

\* The threads.
cvars == <<pc, frame, asked, result, running>>

vars == <<svars, cvars>>

Init ==
  /\ input = None
  /\ held = None
  /\ num = None
  /\ msg = None
  /\ cats = None
  /\ env = None
  /\ wire = None
  /\ decoded = None
  /\ back = None
  /\ shown = None
  /\ same = None
  /\ pc = [ c \in Callers |-> "idle" ]
  /\ frame = [ c \in Callers |-> None ]
  /\ asked = [ c \in Callers |-> None ]
  /\ result = [ c \in Callers |-> None ]
  /\ running = 0

Fresh ==
  /\ num' = None
  /\ msg' = None
  /\ cats' = None
  /\ wire' = None
  /\ decoded' = None
  /\ back' = None
  /\ shown' = None
  /\ same' = None
  /\ UNCHANGED cvars

\* DeribitErrorCode::from(n) on an i32 off the wire.
FromCode ==
  /\ input = None
  /\ \E n \in I32Inputs :
       /\ input' = <<"i32", n>>
       /\ held' = Some(from_code(n))
       /\ env' = None
       /\ Fresh

\* DeribitErrorCode::from(s) on a u16 transport status.
FromStatus ==
  /\ input = None
  /\ \E s \in StatusInputs :
       /\ input' = <<"u16", s>>
       /\ held' = Some(from_status(s))
       /\ env' = None
       /\ Fresh

\* The caller names a variant of the public enum.
Construct ==
  /\ input = None
  /\ \E v \in CodeValues :
       /\ input' = <<"code", v>>
       /\ held' = Some(v)
       /\ env' = None
       /\ Fresh

\* The caller builds DeribitError::Api { code, message } from its public fields.
ConstructApi ==
  /\ input = None
  /\ \E c \in ApiCodes, m \in ApiMessages :
       /\ input' = <<"api", c, m>>
       /\ held' = None
       /\ env' = Some(Api(c, m))
       /\ Fresh

\* The caller builds one of the other variants of DeribitError directly.
ConstructError ==
  /\ input = None
  /\ \/ \E k \in TextVariants, text \in Texts :
          /\ input' = <<"variant", k, text>>
          /\ env' = Some(<<k, text>>)
     \/ /\ input' = <<"variant", "Timeout">>
        /\ env' = Some(Timeout)
  /\ held' = None
  /\ Fresh

\* let e: DeribitError = text.into() on an owned String
FromString ==
  /\ input = None
  /\ \E text \in Texts :
       /\ input' = <<"String", text>>
       /\ env' = Some(DeribitError_from_string(text))
  /\ held' = None
  /\ Fresh

\* let e: DeribitError = text.into() on a &str
FromStr ==
  /\ input = None
  /\ \E text \in Texts :
       /\ input' = <<"&str", text>>
       /\ env' = Some(DeribitError_from_str(text))
  /\ held' = None
  /\ Fresh

\* let e: DeribitError = json_error.into()
FromJsonError ==
  /\ input = None
  /\ \E error \in JsonErrors :
       /\ input' = <<"serde_json::Error", error>>
       /\ env' = Some(DeribitError_from_json_error(error))
  /\ held' = None
  /\ Fresh

\* The caller holds two code values to compare.
ConstructPair ==
  /\ input = None
  /\ \E a \in CodeValues :
       \E b \in ComparedWith(a) :
         input' = <<"pair", a, b>>
  /\ held' = None
  /\ env' = None
  /\ Fresh

\* a == b
Compare ==
  /\ input # None
  /\ input[1] = "pair"
  /\ same = None
  /\ same' = Some(eq(input[2], input[3]))
  /\ UNCHANGED <<input, held, num, msg, cats, env, wire, decoded, back, shown, cvars>>

\* held.code()
Code ==
  /\ held # None
  /\ num = None
  /\ num' = Some(code(held[1]))
  /\ UNCHANGED <<input, held, same, shown, msg, cats, env, wire, decoded, back, cvars>>

\* held.message()
Message ==
  /\ held # None
  /\ msg = None
  /\ msg' = Some(message(held[1]))
  /\ UNCHANGED <<input, held, same, shown, num, cats, env, wire, decoded, back, cvars>>

\* the five predicates on held
Classify ==
  /\ held # None
  /\ cats = None
  /\ cats' = Some(classify(held[1]))
  /\ UNCHANGED <<input, held, same, shown, num, msg, env, wire, decoded, back, cvars>>

\* let e: DeribitError = held.into()
IntoError ==
  /\ held # None
  /\ env = None
  /\ env' = Some(DeribitError_from_code(held[1]))
  /\ UNCHANGED <<input, held, same, shown, num, msg, cats, wire, decoded, back, cvars>>

\* serde_json::to_string(&held)
Serialize ==
  /\ held # None
  /\ wire = None
  /\ wire' = Some(serialize(held[1]))
  /\ UNCHANGED <<input, held, same, shown, num, msg, cats, env, decoded, back, cvars>>

\* serde_json::from_str::<DeribitErrorCode>(&wire)
Deserialize ==
  /\ wire # None
  /\ decoded = None
  /\ decoded' = Some(deserialize(wire[1]))
  /\ UNCHANGED <<input, held, same, shown, num, msg, cats, env, wire, back, cvars>>

\* DeribitErrorCode::from(held.code())
FromNum ==
  /\ num # None
  /\ back = None
  /\ back' = Some(from_code(num[1]))
  /\ UNCHANGED <<input, held, same, shown, num, msg, cats, env, wire, decoded, cvars>>

\* env.to_string()
Render ==
  /\ env # None
  /\ shown = None
  /\ shown' = Some(to_string(env[1]))
  /\ UNCHANGED <<input, held, same, num, msg, cats, env, wire, decoded, back, cvars>>

Next ==
  \/ FromCode
  \/ FromStatus
  \/ Construct
  \/ ConstructApi
  \/ ConstructError
  \/ FromString
  \/ FromStr
  \/ FromJsonError
  \/ ConstructPair
  \/ Compare
  \/ Code
  \/ Message
  \/ Classify
  \/ IntoError
  \/ Serialize
  \/ Deserialize
  \/ FromNum
  \/ Render

Spec == Init /\ [][Next]_vars

\* Thread c calls an operation: the operand goes into its frame.
Invoke(c) ==
  /\ pc[c] = "idle"
  /\ \E call \in Calls :
       /\ frame' = [ frame EXCEPT ![frame_of(c)] = Some(call) ]
       /\ asked' = [ asked EXCEPT ![c] = Some(call) ]
  /\ pc' = [ pc EXCEPT ![c] = "called" ]
  /\ result' = [ result EXCEPT ![c] = None ]
  /\ running' = c
  /\ UNCHANGED svars

\* The operation computes its result from the operand in the frame.
Return(c) ==
  /\ pc[c] = "called"
  /\ result' = [ result EXCEPT ![c] = Some(call_result(frame[frame_of(c)][1])) ]
  /\ pc' = [ pc EXCEPT ![c] = "returned" ]
  /\ running' = c
  /\ UNCHANGED <<frame, asked, svars>>

\* The thread is done with the result and may call again.
Drop(c) ==
  /\ pc[c] = "returned"
  /\ pc' = [ pc EXCEPT ![c] = "idle" ]
  /\ asked' = [ asked EXCEPT ![c] = None ]
  /\ result' = [ result EXCEPT ![c] = None ]
  /\ running' = c
  /\ UNCHANGED <<frame, svars>>

NextConcurrent ==
  \E c \in Callers :
    \/ Invoke(c)
    \/ Return(c)
    \/ Drop(c)

\* Any number of steps of the threads, in any order.
SpecConcurrent == Init /\ [][NextConcurrent]_vars

(* ------------------------------ properties ---------------------------- *)

\* The named variant the test table registers for an integer.
Registered(n) == Named((CHOOSE tc \in test_cases : tc[1] = n)[2])

\* The rows of test_http_status_to_error_code_conversion: status, variant, code.
status_cases ==
  { <<400, "BadRequest", 11050>>, <<401, "Unauthorized", 13009>>,
    <<403, "Forbidden", 13021>>, <<404, "NotFound", 13020>>,
    <<429, "TooManyRequests", 10028>>, <<500, "InternalServerError", 11094>>,
    <<503, "TemporarilyUnavailable", 13028>> }

TableStatuses == { sc[1] : sc \in status_cases }

\* C1: for every integer c of the registered table, from_code(c) is the named
\* variant registered for c (never Unknown) and to_code(from_code(c)) = c.
RoundTripOnRegistered ==
  (input # None /\ input[1] = "i32" /\ input[2] \in RegisteredCodes) =>
    /\ held = Some(Registered(input[2]))
    /\ held[1][1] # "Unknown"
    /\ (num # None => num = Some(input[2]))

RoundTripOnRegisteredWitness ==
  /\ input = <<"i32", 13791>>
  /\ held = Some(Named("KycTransferAlreadyInitiated"))
  /\ num = Some(13791)

\* to_code takes no two named variants to the same integer.
ToCodeInjectiveOnNamed ==
  \A v, w \in NamedVariants : to_code(Named(v)) = to_code(Named(w)) => v = w

\* C2: for every named variant v, from_code(to_code(v)) = v; hence to_code is
\* injective on the named variants and the integer of every named variant is
\* an arm of from_code.
InverseOnNamed ==
  /\ ToCodeInjectiveOnNamed
  /\ (input # None /\ input[1] = "code" /\ input[2][1] # "Unknown" /\ back # None) =>
       /\ back = Some(input[2])
       /\ num[1] \in RegisteredCodes

InverseOnNamedWitness ==
  /\ input = <<"code", Named("Error")>>
  /\ num = Some(10001)
  /\ back = Some(Named("Error"))

\* C3: from_code is total, and for every integer n that is not registered
\* (negative ones, 99999 and 999999 among them) from_code(n) = Unknown(n) and
\* to_code(from_code(n)) = n.
UnknownPreserved ==
  (input # None /\ input[1] = "i32") =>
    /\ held # None
    /\ held[1] \in CodeValues
    /\ input[2] \notin RegisteredCodes =>
         /\ held = Some(Unknown(input[2]))
         /\ (num # None => num = Some(input[2]))

UnknownPreservedWitness ==
  \E n \in { -2147483647, -1, 99999, 999999 } :
    /\ input = <<"i32", n>>
    /\ held = Some(Unknown(n))
    /\ num = Some(n)

\* The wire text is a bare JSON integer whose value is to_code of the value.
BareInteger ==
  (input # None /\ input[1] = "code" /\ wire # None) =>
    /\ is_json_integer(wire[1])
    /\ (num # None => parse_i32(wire[1]) = num[1])
    /\ (held = Some(Named("AuthorizationRequired")) => wire = Some(<<"1","0","0","0","0">>))

\* C4 as stated: for every Code value v, Unknown(p) for every p included,
\* encoding yields the bare integer to_code(v) and decoding returns v.
SerdeRoundTripEveryValue ==
  /\ BareInteger
  /\ (input # None /\ input[1] = "code" /\ decoded # None) =>
       decoded = Some(<<"Ok", input[2]>>)

\* C4 amended: encoding yields the bare integer to_code(v); decoding returns v
\* when v is a named variant or Unknown(p) with p not registered, and returns
\* the named variant registered for p when v is Unknown(p) with p registered.
SerdeRoundTrip ==
  /\ BareInteger
  /\ (input # None /\ input[1] = "code" /\ decoded # None) =>
       IF input[2][1] = "Unknown" /\ input[2][2] \in RegisteredCodes
       THEN decoded = Some(<<"Ok", Registered(input[2][2])>>) /\ decoded[1][2] # input[2]
       ELSE decoded = Some(<<"Ok", input[2]>>)

SerdeRoundTripWitness ==
  /\ input = <<"code", Unknown(10000)>>
  /\ wire = Some(<<"1","0","0","0","0">>)
  /\ decoded = Some(<<"Ok", Named("AuthorizationRequired")>>)
  /\ num = Some(10000)

\* C5: converting a Code value to the envelope always gives the Api variant
\* with code = to_code(v) and message = message(v).
CodeToEnvelopeIsApi ==
  (held # None /\ env # None) =>
    /\ env[1][1] = "Api"
    /\ Len(env[1]) = 3
    /\ (num # None => env[1][2] = num[1])
    /\ (msg # None => env[1][3] = msg[1])
    /\ (held = Some(Named("AuthorizationRequired")) =>
          env = Some(Api(10000, <<"a","u","t","h","o","r","i","z","a","t","i","o","n","_","r","e","q","u","i","r","e","d">>)))

CodeToEnvelopeIsApiWitness ==
  \E p \in { 0, 10000, 99999 } :
    /\ held = Some(from_code(p))
    /\ num = Some(p)
    /\ msg # None
    /\ env = Some(Api(p, msg[1]))

\* The (code, message) pairs of the named variants.
NamedPairs == { <<code(Named(v)), message(Named(v))>> : v \in NamedVariants }

\* Some Code value v has to_code(v) = c and message(v) = m.
InSync(c, m) == <<c, m>> \in NamedPairs \/ m = message(Unknown(c))

\* C6 as stated: every Api envelope, directly constructed ones included, has
\* code = to_code(v) and message = message(v) for some Code value v.
NoApiDesynchronized ==
  (env # None /\ env[1][1] = "Api") => InSync(env[1][2], env[1][3])

\* C6 amended: every Api envelope produced by the converters has code =
\* to_code(v) and message = message(v) for some Code value v; the fields of a
\* directly constructed Api envelope are whatever the caller gave.
NoConverterDesynchronizes ==
  /\ (env # None /\ env[1][1] = "Api" /\ input[1] # "api") => InSync(env[1][2], env[1][3])
  /\ (env # None /\ input[1] = "api") => env = Some(Api(input[2], input[3]))

NoConverterDesynchronizesWitness ==
  /\ input = <<"u16", 404>>
  /\ env = Some(Api(13020, <<"n","o","t","_","f","o","u","n","d">>))

\* C7: the status converter maps exactly the seven table statuses to their
\* named variants (with the codes of the table) and no other status to a
\* named variant.
StatusTable ==
  (input # None /\ input[1] = "u16") =>
    /\ \A sc \in status_cases :
         input[2] = sc[1] => held = Some(Named(sc[2])) /\ (num # None => num = Some(sc[3]))
    /\ input[2] \notin TableStatuses => held[1][1] = "Unknown"

StatusTableWitness ==
  /\ input = <<"u16", 503>>
  /\ held = Some(Named("TemporarilyUnavailable"))
  /\ num = Some(13028)

\* C8: for every status s outside the table the converter returns Unknown(s)
\* with the payload numerically equal to s (not negative, not truncated), so
\* to_code of the result is s.
StatusFallbackKeepsNumber ==
  (input # None /\ input[1] = "u16" /\ input[2] \notin TableStatuses) =>
    /\ held = Some(Unknown(input[2]))
    /\ held[1][2] >= 0
    /\ (num # None => num = Some(input[2]))

StatusFallbackKeepsNumberWitness ==
  /\ input = <<"u16", 65535>>
  /\ held = Some(Unknown(65535))
  /\ num = Some(65535)

\* A direct status -> envelope helper, written as the table of the chain.
envelope_from_status(status) ==
  CASE status = 400 -> Api(11050, <<"b","a","d","_","r","e","q","u","e","s","t">>)
    [] status = 401 -> Api(13009, <<"u","n","a","u","t","h","o","r","i","z","e","d">>)
    [] status = 403 -> Api(13021, <<"f","o","r","b","i","d","d","e","n">>)
    [] status = 404 -> Api(13020, <<"n","o","t","_","f","o","u","n","d">>)
    [] status = 429 -> Api(10028, <<"t","o","o","_","m","a","n","y","_","r","e","q","u","e","s","t","s">>)
    [] status = 500 -> Api(11094, <<"i","n","t","e","r","n","a","l","_","s","e","r","v","e","r","_","e","r","r","o","r">>)
    [] status = 503 -> Api(13028, <<"t","e","m","p","o","r","a","r","i","l","y","_","u","n","a","v","a","i","l","a","b","l","e">>)
    [] OTHER -> Api(status, <<"u","n","k","n","o","w","n","_","e","r","r","o","r">>)

\* C9: status -> Code -> Envelope yields Api(c.to_code(), c.message()) with
\* c = status_to_code(s), and equals the direct one-step table on every status
\* (401 gives Api(13009, "unauthorized")).
ChainEqualsDirect ==
  (input # None /\ input[1] = "u16" /\ env # None) =>
    /\ env = Some(envelope_from_status(input[2]))
    /\ (num # None /\ msg # None => env = Some(Api(num[1], msg[1])))

ChainEqualsDirectWitness ==
  /\ input = <<"u16", 401>>
  /\ held = Some(Named("Unauthorized"))
  /\ num = Some(13009)
  /\ msg # None
  /\ env = Some(Api(13009, <<"u","n","a","u","t","h","o","r","i","z","e","d">>))

\* C10: is_authorization_error holds exactly of AuthorizationRequired and
\* Unauthorized, is_rate_limit_error exactly of TooManyRequests and
\* TooManyConcurrentRequests (Unknown of any payload is in neither).
AuthAndRateLimitMembership ==
  (held # None /\ cats # None) =>
    /\ cats[1].authorization <=> held[1][1] \in { "AuthorizationRequired", "Unauthorized" }
    /\ cats[1].rate_limit <=> held[1][1] \in { "TooManyRequests", "TooManyConcurrentRequests" }

AuthAndRateLimitMembershipWitness ==
  /\ held = Some(Named("Unauthorized"))
  /\ cats # None
  /\ cats[1].authorization
  /\ ~cats[1].rate_limit

\* The names of the five classifications.
Categories == { "success", "authorization", "rate_limit", "validation", "trading" }

\* C11: for every Code value at most one of is_success,
\* is_authorization_error, is_rate_limit_error, is_validation_error and
\* is_trading_error is true.
CategoriesExclusive ==
  (held # None /\ cats # None) =>
    Cardinality({ k \in Categories : cats[1][k] }) <= 1

CategoriesExclusiveWitness ==
  /\ held = Some(Named("InvalidPrice"))
  /\ cats # None
  /\ { k \in Categories : cats[1][k] } = { "validation" }

\* C12: from_code(0) is Success, Success.to_code() is 0, and is_success(v)
\* implies that v is the Success variant and v.to_code() = 0.
SuccessIsZero ==
  /\ input = <<"i32", 0>> => held = Some(Named("Success"))
  /\ (held = Some(Named("Success")) /\ num # None) => num = Some(0)
  /\ (held # None /\ cats # None /\ cats[1].success) =>
       /\ held = Some(Named("Success"))
       /\ (num # None => num = Some(0))

SuccessIsZeroWitness ==
  /\ input = <<"i32", 0>>
  /\ held = Some(Named("Success"))
  /\ num = Some(0)
  /\ cats # None
  /\ cats[1].success

Lower ==
  { "a", "b", "c", "d", "e", "f", "g", "h", "i", "j", "k", "l", "m",
    "n", "o", "p", "q", "r", "s", "t", "u", "v", "w", "x", "y", "z" }

Upper ==
  { "A", "B", "C", "D", "E", "F", "G", "H", "I", "J", "K", "L", "M",
    "N", "O", "P", "Q", "R", "S", "T", "U", "V", "W", "X", "Y", "Z" }

DigitChars == { Digits[d] : d \in 1..10 }

\* Only a-z, 0-9 and underscore.
LowerSnake(text) == \A i \in 1..Len(text) : text[i] \in Lower \cup DigitChars \cup { "_" }

\* The variants whose message carries an acronym in capitals.
AcronymVariants ==
  { "OutdatedInstrumentForIvOrder", "IncompleteKycData", "KycTransferAlreadyInitiated" }

\* C13 as stated: the message of every named variant consists only of a-z,
\* 0-9 and underscore.
MessagesLowerSnake ==
  (held # None /\ held[1][1] # "Unknown" /\ msg # None) => LowerSnake(msg[1])

\* C13 amended: the message of every named variant other than
\* OutdatedInstrumentForIvOrder, IncompleteKycData and
\* KycTransferAlreadyInitiated consists only of a-z, 0-9 and underscore; the
\* messages of these three are outdated_instrument_for_IV_order,
\* incomplete_KYC_data and KYC_transfer_already_initiated, with the acronyms
\* IV and KYC in capitals.
MessagesSnakeWithAcronyms ==
  (held # None /\ held[1][1] # "Unknown" /\ msg # None) =>
    /\ held[1][1] \notin AcronymVariants => LowerSnake(msg[1])
    /\ held[1][1] = "OutdatedInstrumentForIvOrder" =>
         msg[1] = <<"o","u","t","d","a","t","e","d","_","i","n","s","t","r","u","m","e","n","t","_","f","o","r","_","I","V","_","o","r","d","e","r">>
    /\ held[1][1] = "IncompleteKycData" => msg[1] = <<"i","n","c","o","m","p","l","e","t","e","_","K","Y","C","_","d","a","t","a">>
    /\ held[1][1] = "KycTransferAlreadyInitiated" =>
         msg[1] = <<"K","Y","C","_","t","r","a","n","s","f","e","r","_","a","l","r","e","a","d","y","_","i","n","i","t","i","a","t","e","d">>

MessagesSnakeWithAcronymsWitness ==
  /\ held = Some(Named("IncompleteKycData"))
  /\ msg # None
  /\ ~LowerSnake(msg[1])

\* C14: the message of Unknown(p) is "unknown_error" for every payload p,
\* also when p is a registered code.
UnknownMessageSentinel ==
  (held # None /\ held[1][1] = "Unknown" /\ msg # None) =>
    msg = Some(<<"u","n","k","n","o","w","n","_","e","r","r","o","r">>)

UnknownMessageSentinelWitness ==
  /\ input = <<"code", Unknown(10000)>>
  /\ msg = Some(<<"u","n","k","n","o","w","n","_","e","r","r","o","r">>)

\* C15: message() is a non-empty string for every Code value.
MessageNonEmpty ==
  (held # None /\ msg # None) => Len(msg[1]) > 0

MessageNonEmptyWitness ==
  /\ input = <<"i32", 999999>>
  /\ held = Some(Unknown(999999))
  /\ msg # None
  /\ Len(msg[1]) = 13

\* C16: Display of an envelope is the template of its variant with the payload
\* inserted verbatim (the code of Api in decimal).
RenderingContract ==
  (env # None /\ shown # None) =>
    LET e == env[1]
        s == shown[1]
    IN  /\ e[1] = "Connection" => s = <<"C","o","n","n","e","c","t","i","o","n"," ","e","r","r","o","r",":"," ">> \o e[2]
        /\ e[1] = "Authentication" => s = <<"A","u","t","h","e","n","t","i","c","a","t","i","o","n"," ","e","r","r","o","r",":"," ">> \o e[2]
        /\ e[1] = "Api" => s = <<"A","P","I"," ","e","r","r","o","r"," ">> \o fmt_i32(e[2]) \o <<":"," ">> \o e[3]
        /\ e[1] = "Serialization" => s = <<"S","e","r","i","a","l","i","z","a","t","i","o","n"," ","e","r","r","o","r",":"," ">> \o e[2]
        /\ e[1] = "Timeout" => s = <<"R","e","q","u","e","s","t"," ","t","i","m","e","o","u","t">>
        /\ e[1] = "InvalidConfig" => s = <<"I","n","v","a","l","i","d"," ","c","o","n","f","i","g","u","r","a","t","i","o","n",":"," ">> \o e[2]
        /\ e[1] = "Other" => s = <<"E","r","r","o","r",":"," ">> \o e[2]
        /\ e = Connection(<<"F","a","i","l","e","d"," ","t","o"," ","c","o","n","n","e","c","t">>) =>
             s = <<"C","o","n","n","e","c","t","i","o","n"," ","e","r","r","o","r",":"," ","F","a","i","l","e","d"," ","t","o"," ","c","o","n","n","e","c","t">>
        /\ e = Api(10009, <<"I","n","v","a","l","i","d"," ","r","e","q","u","e","s","t">>) =>
             s = <<"A","P","I"," ","e","r","r","o","r"," ","1","0","0","0","9",":"," ","I","n","v","a","l","i","d"," ","r","e","q","u","e","s","t">>
        /\ e = Api(0 - 1, <<"u","n","k","n","o","w","n","_","e","r","r","o","r">>) => s = <<"A","P","I"," ","e","r","r","o","r"," ","-","1",":"," ","u","n","k","n","o","w","n","_","e","r","r","o","r">>
        /\ e = Other(<<"{","m","s","g","}">>) => s = <<"E","r","r","o","r",":"," ","{","m","s","g","}">>
        /\ e = InvalidConfig(<<>>) => s = <<"I","n","v","a","l","i","d"," ","c","o","n","f","i","g","u","r","a","t","i","o","n",":"," ">>

RenderingContractWitness ==
  /\ env = Some(Api(10009, <<"I","n","v","a","l","i","d"," ","r","e","q","u","e","s","t">>))
  /\ shown = Some(<<"A","P","I"," ","e","r","r","o","r"," ","1","0","0","0","9",":"," ","I","n","v","a","l","i","d"," ","r","e","q","u","e","s","t">>)

\* The text serde_json gives for the failures of JsonErrors.
JsonErrorTexts ==
  { <<"e","x","p","e","c","t","e","d"," ","v","a","l","u","e"," ","a","t"," ","l","i","n","e"," ","1"," ","c","o","l","u","m","n"," ","1","3">>,
    <<"E","O","F"," ","w","h","i","l","e"," ","p","a","r","s","i","n","g"," ","a"," ","v","a","l","u","e"," ","a","t"," ","l","i","n","e"," ","1"," ","c","o","l","u","m","n"," ","0">>,
    <<"t","r","a","i","l","i","n","g"," ","c","h","a","r","a","c","t","e","r","s"," ","a","t"," ","l","i","n","e"," ","2"," ","c","o","l","u","m","n"," ","1","0">> }

\* C17: a text, owned or borrowed, becomes Connection(text) unchanged
\* whatever it says, and a deserialization failure becomes
\* Serialization(text of the failure).
ConvertersChooseByKind ==
  /\ (input # None /\ input[1] \in { "String", "&str" }) =>
       env = Some(Connection(input[2]))
  /\ (input # None /\ input[1] = "serde_json::Error") =>
       /\ env[1][1] = "Serialization"
       /\ Len(env[1]) = 2
       /\ env[1][2] \in JsonErrorTexts
       /\ (input[2].column = 13 => env[1][2] = <<"e","x","p","e","c","t","e","d"," ","v","a","l","u","e"," ","a","t"," ","l","i","n","e"," ","1"," ","c","o","l","u","m","n"," ","1","3">>)

ConvertersChooseByKindWitness ==
  /\ input = <<"String", <<"e","x","p","e","c","t","e","d"," ","v","a","l","u","e"," ","a","t"," ","l","i","n","e"," ","1"," ","c","o","l","u","m","n"," ","1","3">>>>
  /\ env = Some(Connection(<<"e","x","p","e","c","t","e","d"," ","v","a","l","u","e"," ","a","t"," ","l","i","n","e"," ","1"," ","c","o","l","u","m","n"," ","1","3">>))

\* C19 as stated: every Api envelope obtained from from_code(n) or from
\* status_to_code(s) has message = from_code(code).message().
ApiAgreesWithRegistry ==
  (input # None /\ input[1] \in { "i32", "u16" } /\ env # None) =>
    env[1][3] = message(from_code(env[1][2]))

\* C19 amended: every Api envelope obtained from from_code(n), or from
\* status_to_code(s) with s not a registered protocol code, has message =
\* from_code(code).message(); for a status s that is a registered protocol
\* code (0, 10000, ...) the envelope is Api(s, "unknown_error"), whose message
\* is not the registry's message for s.
ApiAgreesWithRegistryOffRegistered ==
  (input # None /\ input[1] \in { "i32", "u16" } /\ env # None) =>
    IF input[1] = "u16" /\ input[2] \in RegisteredCodes
    THEN /\ env = Some(Api(input[2], <<"u","n","k","n","o","w","n","_","e","r","r","o","r">>))
         /\ env[1][3] # message(from_code(env[1][2]))
    ELSE env[1][3] = message(from_code(env[1][2]))

ApiAgreesWithRegistryOffRegisteredWitness ==
  /\ input = <<"u16", 10000>>
  /\ held = Some(Unknown(10000))
  /\ env = Some(Api(10000, <<"u","n","k","n","o","w","n","_","e","r","r","o","r">>))

\* C20 as stated: for every value of from_code(n) or status_to_code(s),
\* is_success is true exactly when to_code is 0.
SuccessIffZero ==
  (input # None /\ input[1] \in { "i32", "u16" } /\ cats # None /\ num # None) =>
    (cats[1].success <=> num[1] = 0)

\* C20 amended: for every value of from_code(n), is_success is true exactly
\* when to_code is 0; for every value of status_to_code(s), is_success is
\* false, and to_code is 0 exactly for s = 0, where the value is Unknown(0).
SuccessIffZeroFromCode ==
  (input # None /\ cats # None /\ num # None) =>
    /\ input[1] = "i32" => (cats[1].success <=> num[1] = 0)
    /\ input[1] = "u16" =>
         /\ ~cats[1].success
         /\ num[1] = 0 <=> input[2] = 0
         /\ input[2] = 0 => held = Some(Unknown(0))

SuccessIffZeroFromCodeWitness ==
  /\ input = <<"u16", 0>>
  /\ held = Some(Unknown(0))
  /\ num = Some(0)
  /\ cats # None
  /\ ~cats[1].success

\* What each call of Calls returns when it is the only call (the values the
\* tests assert).
alone ==
  { <<<<"from_code", 10000>>, <<"code", Named("AuthorizationRequired")>>>>,
    <<<<"from_code", 99999>>, <<"code", Unknown(99999)>>>>,
    <<<<"from_status", 401>>, <<"code", Named("Unauthorized")>>>>,
    <<<<"from_status", 418>>, <<"code", Unknown(418)>>>>,
    <<<<"code", Named("TooManyRequests")>>, <<"i32", 10028>>>>,
    <<<<"message", Named("AuthorizationRequired")>>, <<"str", <<"a","u","t","h","o","r","i","z","a","t","i","o","n","_","r","e","q","u","i","r","e","d">>>>>>,
    <<<<"message", Unknown(99999)>>, <<"str", <<"u","n","k","n","o","w","n","_","e","r","r","o","r">>>>>>,
    <<<<"is_success", Named("Success")>>, <<"bool", TRUE>>>>,
    <<<<"is_authorization_error", Named("AuthorizationRequired")>>, <<"bool", TRUE>>>>,
    <<<<"is_trading_error", Named("AuthorizationRequired")>>, <<"bool", FALSE>>>>,
    <<<<"is_rate_limit_error", Named("TooManyRequests")>>, <<"bool", TRUE>>>>,
    <<<<"is_validation_error", Named("TooManyRequests")>>, <<"bool", FALSE>>>>,
    <<<<"into_error", Named("AuthorizationRequired")>>,
      <<"error", Api(10000, <<"a","u","t","h","o","r","i","z","a","t","i","o","n","_","r","e","q","u","i","r","e","d">>)>>>>,
    <<<<"from_str", <<"C","o","n","n","e","c","t","i","o","n"," ","t","i","m","e","o","u","t">>>>,
      <<"error", Connection(<<"C","o","n","n","e","c","t","i","o","n"," ","t","i","m","e","o","u","t">>)>>>>,
    <<<<"to_string", Timeout>>, <<"str", <<"R","e","q","u","e","s","t"," ","t","i","m","e","o","u","t">>>>>> }

\* A step keeps every call apart: a call that has returned holds the result
\* it has when run alone, and a step of one thread leaves what the other
\* threads passed and received as it was.
Isolated ==
  \A c \in Callers :
    /\ pc'[c] = "returned" => <<asked'[c][1], result'[c][1]>> \in alone
    /\ running' # c => /\ pc'[c] = pc[c]
                       /\ asked'[c] = asked[c]
                       /\ result'[c] = result[c]

\* C18: in every interleaving of calls by several threads, each call returns
\* what it returns when run alone on the same input, and no call changes a
\* value another thread passed or received.
NoCoordinationNeeded == [][Isolated]_vars

\* Two threads have returned from different calls, each with its own result.
NoCoordinationNeededWitness ==
  /\ pc[1] = "returned"
  /\ pc[2] = "returned"
  /\ asked[1] = Some(<<"from_code", 10000>>)
  /\ asked[2] = Some(<<"message", Unknown(99999)>>)
  /\ result[1] = Some(<<"code", Named("AuthorizationRequired")>>)
  /\ result[2] = Some(<<"str", <<"u","n","k","n","o","w","n","_","e","r","r","o","r">>>>)
  /\ running = 1

\* C21: for every n in 0..65535 that is neither a table status nor a
\* registered code, status_to_code(n) = from_code(n) = Unknown(n), and
\* to_code, message, the five predicates, the envelope and the wire text of
\* the status-derived value are those of the protocol-derived value.
CatchAllIndistinguishable ==
  (input # None /\ input[1] = "u16"
     /\ input[2] \notin TableStatuses /\ input[2] \notin RegisteredCodes) =>
    LET protocol == from_code(input[2])
    IN  /\ protocol = Unknown(input[2])
        /\ held = Some(protocol)
        /\ (num # None => num[1] = code(protocol))
        /\ (msg # None => msg[1] = message(protocol))
        /\ (cats # None => cats[1] = classify(protocol))
        /\ (env # None => env[1] = DeribitError_from_code(protocol))
        /\ (wire # None => wire[1] = serialize(protocol))

CatchAllIndistinguishableWitness ==
  /\ input = <<"u16", 418>>
  /\ held = Some(Unknown(418))
  /\ num = Some(418)
  /\ msg = Some(<<"u","n","k","n","o","w","n","_","e","r","r","o","r">>)
  /\ cats # None
  /\ env = Some(Api(418, <<"u","n","k","n","o","w","n","_","e","r","r","o","r">>))
  /\ wire = Some(<<"4","1","8">>)

\* C22: is_validation_error holds exactly of the eight variants InvalidAmount
\* .. InvalidInput and is_trading_error exactly of the nine variants QtyTooLow
\* .. BookClosed; PriceTooLow4Idx, BadRequest and InvalidMaxShow are in neither.
ValidationAndTradingMembership ==
  (held # None /\ cats # None) =>
    /\ cats[1].validation <=>
         held[1][1] \in { "InvalidAmount", "InvalidPrice", "InvalidQuantity",
                          "InvalidOrderId", "InvalidArguments", "BadArgument",
                          "BadArguments", "InvalidInput" }
    /\ cats[1].trading <=>
         held[1][1] \in { "QtyTooLow", "OrderOverlap", "OrderNotFound", "PriceTooLow",
                          "PriceTooHigh", "NotEnoughFunds", "AlreadyClosed",
                          "PriceNotAllowed", "BookClosed" }
    /\ held[1][1] \in { "PriceTooLow4Idx", "BadRequest", "InvalidMaxShow" } =>
         ~cats[1].validation /\ ~cats[1].trading

ValidationAndTradingMembershipWitness ==
  /\ held = Some(Named("InvalidMaxShow"))
  /\ cats # None
  /\ ~cats[1].validation
  /\ ~cats[1].trading

\* C24: for every status, 0 and the 2xx statuses included, the status
\* converter does not give the Success variant and is_success is false.
StatusNeverSuccess ==
  (input # None /\ input[1] = "u16") =>
    /\ held # Some(Named("Success"))
    /\ (cats # None => ~cats[1].success)

StatusNeverSuccessWitness ==
  /\ input = <<"u16", 200>>
  /\ held = Some(Unknown(200))
  /\ cats # None
  /\ ~cats[1].success

\* C25: on status-derived codes is_authorization_error is true only for 401
\* and is_rate_limit_error only for 429; for every other status the four
\* category predicates are false.
StatusCategories ==
  (input # None /\ input[1] = "u16" /\ cats # None) =>
    /\ cats[1].authorization <=> input[2] = 401
    /\ cats[1].rate_limit <=> input[2] = 429
    /\ input[2] \notin { 401, 429 } =>
         /\ ~cats[1].authorization
         /\ ~cats[1].rate_limit
         /\ ~cats[1].validation
         /\ ~cats[1].trading

StatusCategoriesWitness ==
  /\ input = <<"u16", 400>>
  /\ held = Some(Named("BadRequest"))
  /\ cats # None
  /\ { k \in Categories : cats[1][k] } = {}

\* C26: the five predicates are false on Unknown(p) for every payload p, also
\* when p is 0 or the integer of a categorized code.
CatchAllInNoCategory ==
  (held # None /\ held[1][1] = "Unknown" /\ cats # None) =>
    \A k \in Categories : ~cats[1][k]

CatchAllInNoCategoryWitness ==
  /\ input = <<"code", Unknown(10028)>>
  /\ cats # None
  /\ \A k \in Categories : ~cats[1][k]

\* C27: norm(v) = from_code(to_code(v)) is idempotent, keeps to_code, and is
\* never Unknown(p) for a registered p.
NormIdempotent ==
  (input # None /\ input[1] = "code" /\ num # None /\ back # None) =>
    /\ from_code(to_code(back[1])) = back[1]
    /\ to_code(back[1]) = num[1]
    /\ back[1][1] = "Unknown" => back[1][2] \notin RegisteredCodes
    /\ (input[2][1] = "Unknown" /\ input[2][2] \in RegisteredCodes) =>
         back[1] = Registered(input[2][2])

NormIdempotentWitness ==
  /\ input = <<"code", Unknown(10001)>>
  /\ num = Some(10001)
  /\ back = Some(Named("Error"))

\* The message of each named variant.
NamedMessages == [ v \in NamedVariants |-> message(Named(v)) ]

\* C28: no two named variants have the same message, and no named variant
\* has the message "unknown_error".
MessagesIdentifyVariants ==
  (held # None /\ held[1][1] # "Unknown" /\ msg # None) =>
    /\ msg[1] # <<"u","n","k","n","o","w","n","_","e","r","r","o","r">>
    /\ \A v \in NamedVariants : NamedMessages[v] = msg[1] => v = held[1][1]

MessagesIdentifyVariantsWitness ==
  /\ held = Some(Named("BadArguments"))
  /\ msg = Some(<<"b","a","d","_","a","r","g","u","m","e","n","t","s">>)

\* C23: two named variants are equal exactly when they are the same variant,
\* Unknown(a) and Unknown(b) exactly when a = b, and Unknown(p) never equals a
\* named variant, also when p is the integer of that variant.
EqualityByVariantAndPayload ==
  (input # None /\ input[1] = "pair" /\ same # None) =>
    LET a == input[2]
        b == input[3]
    IN  /\ (a[1] # "Unknown" /\ b[1] # "Unknown") => (same[1] <=> a[1] = b[1])
        /\ (a[1] = "Unknown" /\ b[1] = "Unknown") => (same[1] <=> a[2] = b[2])
        /\ (a[1] = "Unknown" /\ b[1] # "Unknown") => ~same[1]
        /\ (a[1] # "Unknown" /\ b[1] = "Unknown") => ~same[1]

\* Unknown(10000) and AuthorizationRequired have the integer 10000 and differ.
EqualityByVariantAndPayloadWitness ==
  /\ input = <<"pair", Unknown(10000), Named("AuthorizationRequired")>>
  /\ to_code(input[2]) = to_code(input[3])
  /\ same = Some(FALSE)

====
